---- MODULE Spec2Model ----
(***************************************************************************)
(* Habit-Tracker-Backend: the gamification engine (streaks, points and     *)
(* levels, badges), the check-in and habit-creation requests that drive    *)
(* it, and the recommendation generator with its fallback.                 *)
(*                                                                         *)
(* A datetime is an integer number of ticks; a calendar date is the day    *)
(* number Date(dt).  Requests are processes whose steps are the stretches  *)
(* of a handler between two awaited database round trips; what a step      *)
(* reads from the database is what is committed at that moment, and what a *)
(* session has loaded earlier (the user row, the habit's check-ins) stays  *)
(* as loaded (expire_on_commit = False, no populate_existing).             *)
(***************************************************************************)
EXTENDS Integers, Sequences, FiniteSets, TLC

\* ---------------------------------------------------------------- bounds
TicksPerDay == 2      \* instants distinguished within one calendar day
Day0 == 40            \* calendar day on which the modelled runs start
MaxTicks == 1         \* clock advances per behaviour
MaxRequests == 2      \* requests started per behaviour
MaxLen == 3           \* check-in list length of the streak harness
MaxBack == 3          \* how many days back the streak harness dates go
HistoryDays == 30     \* age in days of the habits the runs start with

\* ------------------------------------------------------ program constants
LevelStep == 1000     \* points per level
PointsPerDifficulty == 10
BonusPerWeek == 5
MaxBonusWeeks == 5
DaysPerWeek == 7
MonthStreak == 30
WeekStreak == 7
StarterStreak == 3
CreatorHabits == 5
ConsistencyDays == 30
ConsistencyRate == 90
ExpiryDays == 7
WindowMinutes == 15       \* rate_limit_admin_operations, window_minutes
SecondsPerMinute == 60
MaxAttempts == 5          \* rate_limit_admin_operations, max_attempts
FirstAdminAttempts == 3   \* create_first_admin's max_attempts

VARIABLES
    now,          \* datetime.utcnow(), in ticks
    users,        \* table users: id -> row
    habits,       \* table habits: set of rows
    checkins,     \* table habit_check_ins: set of rows
    badges,       \* table user_badges: set of rows
    recs,         \* table ai_recommendations: set of rows
    req,          \* request slot -> the request being processed in it
    started,      \* number of requests started so far
    ticks,        \* number of clock advances so far
    streak_in,    \* streak harness: the check-in list handed to _calculate_streak
    streak_out,   \* streak harness: its result, -1 before the call
    eval_log,     \* evaluator harness: one entry per check_and_award_badges run
    admin_rate_limit,  \* auth_utils.admin_rate_limit: address -> attempt times
    clock,        \* time.time(), in seconds
    emails,       \* table users, column email: id -> email
    invites,      \* table admin_invites: set of rows
    attempts      \* the admin calls that passed the rate limiter, with their times

harness == <<streak_in, streak_out, eval_log>>
admin == <<admin_rate_limit, clock, emails, invites, attempts>>
vars == <<now, users, habits, checkins, badges, recs, req, started, ticks, admin, harness>>

\* ---------------------------------------------------------------- time
Date(dt) == dt \div TicksPerDay
timedelta(days) == days * TicksPerDay
SecondsPerDay == 24 * 60 * SecondsPerMinute

\* ----------------------------------------------- the admin rate limiter
Addresses == {"10.0.0.1", "10.0.0.2"}

\* no admin call yet, no admin account, no invitation: the two users'
\* emails are the only ones
NoAdminCalls ==
    /\ admin_rate_limit = [a \in Addresses |-> <<>>]
    /\ clock = (now * SecondsPerDay) \div TicksPerDay
    /\ emails = <<"one@example.com", "two@example.com">>
    /\ invites = {}
    /\ attempts = {}

\* ------------------------------------------------- _calculate_streak
\* sorted(checkins, key=check_in_date, reverse=True): a stable sort, so
\* check-ins with equal datetimes keep their relative order.
InsertDesc(sorted, x) ==
    LET k == Cardinality({i \in 1..Len(sorted) :
                            sorted[i].check_in_date >= x.check_in_date})
    IN SubSeq(sorted, 1, k) \o <<x>> \o SubSeq(sorted, k + 1, Len(sorted))

RECURSIVE SortedDesc(_)
SortedDesc(s) ==
    IF s = <<>> THEN <<>>
    ELSE InsertDesc(SortedDesc(SubSeq(s, 1, Len(s) - 1)), s[Len(s)])

\* the for loop: one more day for each check-in dated current_date - streak,
\* stop at the first check-in that is not.
RECURSIVE StreakWalk(_, _, _, _)
StreakWalk(s, i, streak, current_date) ==
    IF i > Len(s) THEN streak
    ELSE IF Date(s[i].check_in_date) = current_date - streak
         THEN StreakWalk(s, i + 1, streak + 1, current_date)
         ELSE streak

_calculate_streak_unsorted(cis) ==
    IF cis = <<>> THEN 0
    ELSE StreakWalk(cis, 1, 0, Date(now))

_calculate_streak(cis) ==
    IF cis = <<>> THEN 0
    ELSE StreakWalk(SortedDesc(cis), 1, 0, Date(now))

\* a query result or a loaded relationship as a list (the order the database
\* returns rows in is not specified; one order is chosen)
RECURSIVE SetToSeq(_)
SetToSeq(S) ==
    IF S = {} THEN <<>>
    ELSE LET x == CHOOSE y \in S : \A z \in S : y.id <= z.id
         IN <<x>> \o SetToSeq(S \ {x})

\* ------------------------------------------------------------ tables
UserIds == {1, 2}
Slots == {1, 2}
Callers == {1}            \* the users who send habit and check-in requests

MONTH_MASTER == "month_master"
WEEK_WARRIOR == "week_warrior"
STREAK_STARTER == "streak_starter"
HABIT_CREATOR == "habit_creator"
CONSISTENCY_KING == "consistency_king"

NewId(table) == Cardinality(table) + 1      \* autoincrement; no row is deleted

UserHabits(user_id) == {h \in habits : h.user_id = user_id}
ActiveHabits(user_id) == {h \in habits : h.user_id = user_id /\ h.is_active}
HabitCheckIns(habit_id) == {c \in checkins : c.habit_id = habit_id}
UserBadgeRows(user_id) == {b \in badges : b.user_id = user_id}

\* ------------------------------------------------- points and levels
Level(total_points) == (total_points \div LevelStep) + 1

award_points_doubled(row, sess_points, sess_level, points) ==
    LET new_points == sess_points + points + points
        new_level == Level(new_points)
    IN [row EXCEPT !.total_points = IF new_points # sess_points
                                    THEN new_points ELSE @,
                   !.level = IF new_level # sess_level THEN new_level ELSE @]

\* award_points on the user row a session holds: the ORM adds to the value
\* the session loaded, and its UPDATE sets only the columns whose value
\* differs from the loaded one.
award_points(row, sess_points, sess_level, points) ==
    LET new_points == sess_points + points
        new_level == Level(new_points)
    IN [row EXCEPT !.total_points = IF new_points # sess_points
                                    THEN new_points ELSE @,
                   !.level = IF new_level # sess_level THEN new_level ELSE @]

\* ------------------------------------------------------ badge evaluator
existing_badges(user_id) == {b.badge_type : b \in UserBadgeRows(user_id)}

\* the habit's check-ins, ORDER BY check_in_date DESC, through _calculate_streak
HabitStreak(h) == _calculate_streak(SortedDesc(SetToSeq(HabitCheckIns(h.id))))

\* max_streak = max(max_streak, streak) over the habits, from 0
RECURSIVE MaxStreakOver(_)
MaxStreakOver(S) ==
    IF S = {} THEN 0
    ELSE LET h == CHOOSE y \in S : TRUE
             rest == MaxStreakOver(S \ {h})
         IN IF HabitStreak(h) > rest THEN HabitStreak(h) ELSE rest

max_streak(user_id) == MaxStreakOver(ActiveHabits(user_id))

_check_streak_badges(user_id, existing) ==
    LET m == max_streak(user_id)
    IN IF m >= MonthStreak /\ MONTH_MASTER \notin existing THEN <<MONTH_MASTER>>
       ELSE IF m >= WeekStreak /\ WEEK_WARRIOR \notin existing THEN <<WEEK_WARRIOR>>
       ELSE IF m >= StarterStreak /\ STREAK_STARTER \notin existing
            THEN <<STREAK_STARTER>>
       ELSE <<>>

_check_creation_badges_above(user_id, existing) ==
    LET total_habits == Cardinality(UserHabits(user_id))
    IN IF total_habits > CreatorHabits /\ HABIT_CREATOR \notin existing
       THEN <<HABIT_CREATOR>> ELSE <<>>

_check_creation_badges(user_id, existing) ==
    LET total_habits == Cardinality(UserHabits(user_id))
    IN IF total_habits >= CreatorHabits /\ HABIT_CREATOR \notin existing
       THEN <<HABIT_CREATOR>> ELSE <<>>

_check_consistency_badges(user_id, existing) ==
    LET thirty_days_ago == now - timedelta(ConsistencyDays)
        n == Cardinality(ActiveHabits(user_id))
        total_expected == n * ConsistencyDays
        total_checkins ==
            Cardinality({c \in checkins :
                /\ \E h \in habits : h.id = c.habit_id /\ h.user_id = user_id
                /\ c.check_in_date >= thirty_days_ago})
    IN IF n > 0
          /\ total_checkins * 100 >= ConsistencyRate * total_expected
          /\ CONSISTENCY_KING \notin existing
       THEN <<CONSISTENCY_KING>> ELSE <<>>

\* the three rule families, in the order check_and_award_badges runs them
newly_awarded(user_id, existing) ==
    _check_streak_badges(user_id, existing)
    \o _check_creation_badges(user_id, existing)
    \o _check_consistency_badges(user_id, existing)

\* for badge in newly_awarded: db.add(badge); commit
BadgeRows(user_id, newly) ==
    {[id |-> Cardinality(badges) + i, user_id |-> user_id, badge_type |-> newly[i]] :
        i \in 1..Len(newly)}

\* ---------------------------------------------------------- requests
Null == "null"
MaxHabits == 3        \* habit rows per behaviour

Idle == [pc |-> "idle", kind |-> "none", user |-> 0, habit_id |-> 0,
         difficulty |-> 0, category |-> Null,
         sess_points |-> 0, sess_level |-> 0,
         points_earned |-> 0, check_in_date |-> 0,
         existing |-> {}, newly |-> <<>>,
         rec_type |-> Null, analytics |-> Null, prompt |-> Null,
         provider |-> Null, gemini_response |-> Null,
         password_ok |-> FALSE, rec_id |-> 0, unread_only |-> FALSE,
         ip |-> Null, email |-> Null, secret_ok |-> FALSE,
         invite_token |-> Null, invite_id |-> 0,
         role |-> Null, mood_rating |-> {},
         limit |-> 0, listed |-> <<>>, detail |-> Null, status |-> 0]

\* a finished request: only its HTTP status is kept
Done(status) == [Idle EXCEPT !.pc = "done", !.status = status]

\* a finished request that was refused: the status, the detail, and what
\* was asked for
Refused(q, status, detail) ==
    [Done(status) EXCEPT !.detail = detail, !.kind = q.kind, !.user = q.user,
                         !.habit_id = q.habit_id, !.rec_id = q.rec_id]

Free(r) == req[r].pc \in {"idle", "done"}
\* a request takes the lowest free slot (the slots are interchangeable)
Takes(r) == Free(r) /\ \A s \in Slots : s < r => ~Free(s)
Quiescent == \A r \in Slots : Free(r)

Min(a, b) == IF a < b THEN a ELSE b

\* get_current_user: the session loads the caller's user row
get_current_user(q, user_id) ==
    [q EXCEPT !.user = user_id,
              !.sess_points = users[user_id].total_points,
              !.sess_level = users[user_id].level]

\* ---------------------------------------------------- mark_habit_as_done
already_checked_in_all(cis) ==
    \A i \in 1..Len(cis) : Date(cis[i].check_in_date) = Date(now)

\* any(ci.check_in_date.date() == today for ci in habit.check_ins)
already_checked_in(cis) ==
    \E i \in 1..Len(cis) : Date(cis[i].check_in_date) = Date(now)

streak_bonus(current_streak) ==
    Min(current_streak \div DaysPerWeek, MaxBonusWeeks) * BonusPerWeek

StartCheckIn(r, user_id, habit_id) ==
    /\ Takes(r)
    /\ started < MaxRequests
    /\ started' = started + 1
    /\ req' = [req EXCEPT ![r] =
                 get_current_user([Idle EXCEPT !.pc = "load_habit",
                                               !.kind = "check_in",
                                               !.habit_id = habit_id], user_id)]
    /\ UNCHANGED <<now, users, habits, checkins, badges, recs, ticks, admin, harness>>

\* the same call with the query parameter mood_rating: Optional[int], kept
\* as the set of its values (empty when absent)
MoodRatings == {{}, {0}, {3}, {6}}

StartRatedCheckIn(r, user_id, habit_id, mood_rating) ==
    /\ Takes(r)
    /\ started < MaxRequests
    /\ started' = started + 1
    /\ req' = [req EXCEPT ![r] =
                 get_current_user([Idle EXCEPT !.pc = "load_habit",
                                               !.kind = "check_in",
                                               !.habit_id = habit_id,
                                               !.mood_rating = mood_rating],
                                  user_id)]
    /\ UNCHANGED <<now, users, habits, checkins, badges, recs, ticks, admin, harness>>

owned_habits_of_anyone(user_id, habit_id) ==
    {h \in habits : h.id = habit_id}

\* where(Habit.id == habit_id, Habit.user_id == current_user.id)
owned_habits(user_id, habit_id) ==
    {h \in habits : h.id = habit_id /\ h.user_id = user_id}

\* the ownership query with the habit's check-ins, the guard and the points
LoadHabit(r) ==
    LET q == req[r]
        found == owned_habits(q.user, q.habit_id)
    IN /\ q.pc = "load_habit"
       /\ IF found = {}
          THEN req' = [req EXCEPT ![r] = Refused(q, 404, "Habit not found")]
          ELSE LET habit == CHOOSE h \in found : TRUE
                   cis == SetToSeq(HabitCheckIns(habit.id))
               IN IF already_checked_in(cis)
                  THEN req' = [req EXCEPT ![r] = Done(400)]
                  ELSE req' = [req EXCEPT ![r] =
                          [q EXCEPT !.pc = "award",
                                    !.points_earned =
                                        habit.points_per_completion
                                        + streak_bonus(_calculate_streak(cis)),
                                    !.check_in_date = now]]
       /\ UNCHANGED <<now, users, habits, checkins, badges, recs, started, ticks, admin, harness>>

\* db.add(new_checkin), then award_points: the INSERT and the user's UPDATE
\* are committed together by award_points' commit
AwardPoints(r) ==
    LET q == req[r]
    IN /\ q.pc = "award"
       /\ checkins' = checkins \cup
              {[id |-> NewId(checkins), habit_id |-> q.habit_id,
                check_in_date |-> q.check_in_date,
                mood_rating |-> q.mood_rating,
                points_earned |-> q.points_earned]}
       /\ users' = [users EXCEPT ![q.user] =
                      award_points(@, q.sess_points, q.sess_level, q.points_earned)]
       /\ req' = [req EXCEPT ![r].pc = "eval_load"]
       /\ UNCHANGED <<now, habits, badges, recs, started, ticks, admin, harness>>

\* ---------------------------------------------- check_and_award_badges
EvalLoad(r) ==
    LET q == req[r]
    IN /\ q.pc = "eval_load"
       /\ req' = [req EXCEPT ![r].pc = "eval_families",
                             ![r].existing = existing_badges(q.user)]
       /\ UNCHANGED <<now, users, habits, checkins, badges, recs, started, ticks, admin, harness>>

EvalFamilies(r) ==
    LET q == req[r]
    IN /\ q.pc = "eval_families"
       /\ req' = [req EXCEPT ![r].pc = "eval_commit",
                             ![r].newly = newly_awarded(q.user, q.existing)]
       /\ UNCHANGED <<now, users, habits, checkins, badges, recs, started, ticks, admin, harness>>

\* the new badges are added and committed; the handler then only reads
EvalCommit(r) ==
    LET q == req[r]
    IN /\ q.pc = "eval_commit"
       /\ badges' = badges \cup BadgeRows(q.user, q.newly)
       /\ req' = [req EXCEPT ![r] = Done(200)]
       /\ UNCHANGED <<now, users, habits, checkins, recs, started, ticks, admin, harness>>

\* ---------------------------------------------------------- create_habit
HabitInputs == {[difficulty |-> 1, category |-> Null],
                [difficulty |-> 5, category |-> "health"]}

StartCreateHabit(r, user_id, input) ==
    /\ Takes(r)
    /\ started < MaxRequests
    /\ Cardinality(habits)
         + Cardinality({s \in Slots : req[s].pc = "insert_habit"}) < MaxHabits
    /\ started' = started + 1
    /\ req' = [req EXCEPT ![r] =
                 get_current_user([Idle EXCEPT !.pc = "insert_habit",
                                               !.kind = "create_habit",
                                               !.difficulty = input.difficulty,
                                               !.category = input.category],
                                  user_id)]
    /\ UNCHANGED <<now, users, habits, checkins, badges, recs, ticks, admin, harness>>

InsertHabit(r) ==
    LET q == req[r]
    IN /\ q.pc = "insert_habit"
       /\ habits' = habits \cup
              {[id |-> NewId(habits), user_id |-> q.user,
                category |-> q.category,
                points_per_completion |-> q.difficulty * PointsPerDifficulty,
                start_date |-> now, is_active |-> TRUE]}
       /\ req' = [req EXCEPT ![r].pc = "eval_load", ![r].habit_id = NewId(habits)]
       /\ UNCHANGED <<now, users, checkins, badges, recs, started, ticks, admin, harness>>

\* ------------------------------------------------------------- the clock
Tick ==
    /\ ticks < MaxTicks
    /\ ticks' = ticks + 1
    /\ now' = now + 1
    /\ clock' = clock + SecondsPerDay \div TicksPerDay
    /\ UNCHANGED <<users, habits, checkins, badges, recs, req, started, harness,
                   admin_rate_limit, emails, invites, attempts>>

\* ------------------------------------------------------- initial states
\* A user who created two habits and checked in on the first one on each of
\* the last `run` days before today, one request at a time: the check-ins,
\* the points and level award_points left, the badges the evaluator awarded
\* on the 3rd and the 7th day.
\* `young`: the second habit was created today and checked in at once.
InitScenarios ==
    {[run |-> 0, difficulty |-> 1, young |-> FALSE],
     [run |-> 2, difficulty |-> 1, young |-> FALSE],
     [run |-> 14, difficulty |-> 2, young |-> FALSE],
     [run |-> 19, difficulty |-> 5, young |-> FALSE],
     [run |-> 29, difficulty |-> 1, young |-> FALSE]}

History(habit_id, run, points) ==
    {[id |-> k, habit_id |-> habit_id,
      check_in_date |-> (Day0 - run - 1 + k) * TicksPerDay,
      mood_rating |-> {}, points_earned |-> points] : k \in 1..run}

HistoryBadges(user_id, run) ==
    {[id |-> 1, user_id |-> user_id, badge_type |-> STREAK_STARTER] :
        x \in {y \in {1} : run >= StarterStreak}}
    \cup {[id |-> 2, user_id |-> user_id, badge_type |-> WEEK_WARRIOR] :
        x \in {y \in {1} : run >= WeekStreak}}

NewUser == [role |-> "user", total_points |-> 0, level |-> 1]

InitTables(sc) ==
    LET points == sc.difficulty * PointsPerDifficulty
        start == (Day0 - HistoryDays) * TicksPerDay
        first == {[id |-> sc.run + 1, habit_id |-> 2,
                   check_in_date |-> Day0 * TicksPerDay,
                   mood_rating |-> {},
                   points_earned |-> PointsPerDifficulty] :
                       x \in {y \in {1} : sc.young}}
        total == sc.run * points + Cardinality(first) * PointsPerDifficulty
    IN /\ now = Day0 * TicksPerDay + (TicksPerDay - 1)
       /\ habits = {[id |-> 1, user_id |-> 1, category |-> "health",
                     points_per_completion |-> points,
                     start_date |-> start, is_active |-> TRUE],
                    [id |-> 2, user_id |-> 1, category |-> Null,
                     points_per_completion |-> PointsPerDifficulty,
                     start_date |-> IF sc.young THEN Day0 * TicksPerDay ELSE start,
                     is_active |-> TRUE]}
       /\ checkins = History(1, sc.run, points) \cup first
       /\ users = [u \in UserIds |->
                     IF u = 1
                     THEN [NewUser EXCEPT !.total_points = total,
                                          !.level = Level(total)]
                     ELSE NewUser]
       /\ badges = HistoryBadges(1, sc.run)
       /\ recs = {}

Init ==
    /\ \E sc \in InitScenarios : InitTables(sc)
    /\ req = [r \in Slots |-> Idle]
    /\ started = 0
    /\ ticks = 0
    /\ streak_in = <<>>
    /\ streak_out = -1
    /\ eval_log = <<>>
    /\ NoAdminCalls

Next ==
    \/ \E r \in Slots, u \in Callers, h \in 1..MaxHabits : StartCheckIn(r, u, h)
    \/ \E r \in Slots, u \in Callers, i \in HabitInputs : StartCreateHabit(r, u, i)
    \/ \E r \in Slots : LoadHabit(r)
    \/ \E r \in Slots : AwardPoints(r)
    \/ \E r \in Slots : InsertHabit(r)
    \/ \E r \in Slots : EvalLoad(r)
    \/ \E r \in Slots : EvalFamilies(r)
    \/ \E r \in Slots : EvalCommit(r)
    \/ Tick

Spec == Init /\ [][Next]_vars

\* the same requests processed one at a time
NextSeq ==
    \/ \E r \in Slots, u \in Callers, h \in 1..MaxHabits :
          Quiescent /\ StartCheckIn(r, u, h)
    \/ \E r \in Slots, u \in Callers, i \in HabitInputs :
          Quiescent /\ StartCreateHabit(r, u, i)
    \/ \E r \in Slots : LoadHabit(r)
    \/ \E r \in Slots : AwardPoints(r)
    \/ \E r \in Slots : InsertHabit(r)
    \/ \E r \in Slots : EvalLoad(r)
    \/ \E r \in Slots : EvalFamilies(r)
    \/ \E r \in Slots : EvalCommit(r)
    \/ Tick

SpecSeq == Init /\ [][NextSeq]_vars

\* check-ins that carry a mood rating, one at a time
NextMood ==
    \/ \E r \in Slots, u \in Callers, h \in 1..MaxHabits, m \in MoodRatings :
          Quiescent /\ StartRatedCheckIn(r, u, h, m)
    \/ \E r \in Slots : LoadHabit(r)
    \/ \E r \in Slots : AwardPoints(r)
    \/ \E r \in Slots : EvalLoad(r)
    \/ \E r \in Slots : EvalFamilies(r)
    \/ \E r \in Slots : EvalCommit(r)
    \/ Tick

SpecMood == Init /\ [][NextMood]_vars

\* ------------------------------------------------- a request that fails
\* A database round trip of the request raises (connection lost, statement
\* timeout): no handler catches it, the request ends in a 500 and the session
\* is closed, which drops what it has not committed.  What award_points or
\* create_habit committed before stays.
Fail(r) ==
    /\ req[r].pc \notin {"idle", "done"}
    /\ req' = [req EXCEPT ![r] = Done(500)]
    /\ UNCHANGED <<now, users, habits, checkins, badges, recs, started, ticks, admin, harness>>

NextFail ==
    \/ NextSeq
    \/ \E r \in Slots : Fail(r)

SpecFail == Init /\ [][NextFail]_vars

\* ------------------------------------------- _calculate_streak alone
\* The function applied to check-in lists in any order: up to MaxLen
\* check-ins dated within the last MaxBack days, none later than now.
Idling ==
    /\ req = [r \in Slots |-> Idle]
    /\ started = 0
    /\ ticks = 0

EmptyTables ==
    /\ users = [u \in UserIds |-> NewUser]
    /\ habits = {}
    /\ checkins = {}
    /\ badges = {}
    /\ recs = {}

StreakDates ==
    {dt \in (Day0 - MaxBack) * TicksPerDay .. now :
        dt % TicksPerDay \in {0, TicksPerDay - 1}}

StreakInputs ==
    UNION {[1..n -> StreakDates] : n \in 0..MaxLen}

AsCheckIns(dates) ==
    [i \in 1..Len(dates) |->
        [id |-> i, habit_id |-> 1, check_in_date |-> dates[i],
         mood_rating |-> {}, points_earned |-> PointsPerDifficulty]]

InitStreak ==
    /\ now \in {Day0 * TicksPerDay, Day0 * TicksPerDay + (TicksPerDay - 1)}
    /\ EmptyTables
    /\ Idling
    /\ \E dates \in StreakInputs : streak_in = AsCheckIns(dates)
    /\ streak_out = -1
    /\ eval_log = <<>>
    /\ NoAdminCalls

StreakApply ==
    /\ streak_out = -1
    /\ streak_out' = _calculate_streak(streak_in)
    /\ UNCHANGED <<now, users, habits, checkins, badges, recs, req, started, ticks,
                   streak_in, eval_log, admin>>

\* the clock moves on: the streak has to be computed again
StreakTick ==
    /\ ticks < MaxTicks
    /\ ticks' = ticks + 1
    /\ now' = now + 1
    /\ clock' = clock + SecondsPerDay \div TicksPerDay
    /\ streak_out' = -1
    /\ UNCHANGED <<users, habits, checkins, badges, recs, req, started,
                   streak_in, eval_log,
                   admin_rate_limit, emails, invites, attempts>>

NextStreak == StreakApply \/ StreakTick

SpecStreak == InitStreak /\ [][NextStreak]_vars

\* ------------------------------------ two users, each one call at a time
PointsRuns == {0, 2, 14}

\* user 1 has checked in on habit 1 on each of the `run` days before today,
\* user 2 has habit 2 and no check-in
InitPoints ==
    /\ now = Day0 * TicksPerDay + (TicksPerDay - 1)
    /\ \E run \in PointsRuns, d \in {1, 5} :
          /\ habits = {[id |-> u, user_id |-> u, category |-> "health",
                        points_per_completion |-> d * PointsPerDifficulty,
                        start_date |-> (Day0 - HistoryDays) * TicksPerDay,
                        is_active |-> TRUE] : u \in UserIds}
          /\ checkins = History(1, run, d * PointsPerDifficulty)
          /\ users = [u \in UserIds |->
                        IF u = 1
                        THEN [NewUser EXCEPT
                                !.total_points = run * d * PointsPerDifficulty,
                                !.level = Level(run * d * PointsPerDifficulty)]
                        ELSE NewUser]
          /\ badges = HistoryBadges(1, run)
    /\ recs = {}
    /\ Idling
    /\ streak_in = <<>>
    /\ streak_out = -1
    /\ eval_log = <<>>
    /\ NoAdminCalls

\* no request of the user is in flight
NotInFlight(user_id) == \A r \in Slots : Free(r) \/ req[r].user # user_id

NextPoints ==
    \/ \E r \in Slots, u \in UserIds, h \in 1..MaxHabits :
          NotInFlight(u) /\ StartCheckIn(r, u, h)
    \/ \E r \in Slots : LoadHabit(r)
    \/ \E r \in Slots : AwardPoints(r)
    \/ \E r \in Slots : EvalLoad(r)
    \/ \E r \in Slots : EvalFamilies(r)
    \/ \E r \in Slots : EvalCommit(r)
    \/ Tick

SpecPoints == InitPoints /\ [][NextPoints]_vars

\* ------------------------------------------- the badge evaluator alone
\* check_and_award_badges run as a whole, any number of times, on a user
\* with one habit checked in on each of the last `run` days up to today,
\* and possibly a second habit created today, who
\* holds some of the badges that history has qualified for (an evaluator
\* run is a unit of work of its own: it is skipped when the request fails
\* after award_points' commit, and it sees a streak of 0 when midnight
\* passes between that commit and the evaluation).
MaxRuns == 4          \* evaluator runs per behaviour

EvalRunLengths == {0, 2, 3, 7, 30, 31}

Qualified(run) ==
    {t \in {STREAK_STARTER} : run >= StarterStreak}
    \cup {t \in {WEEK_WARRIOR} : run >= WeekStreak}
    \cup {t \in {MONTH_MASTER} : run >= MonthStreak}
    \cup {t \in {CONSISTENCY_KING} : run * 100 >= ConsistencyRate * ConsistencyDays}

RECURSIVE BadgeRowsOf(_, _)
BadgeRowsOf(user_id, types) ==
    IF types = {} THEN {}
    ELSE LET t == CHOOSE x \in types : TRUE
         IN BadgeRowsOf(user_id, types \ {t})
            \cup {[id |-> Cardinality(types), user_id |-> user_id, badge_type |-> t]}

InitEval ==
    /\ now = Day0 * TicksPerDay + (TicksPerDay - 1)
    /\ \E run \in EvalRunLengths, d \in {1, 5}, second \in BOOLEAN :
          /\ habits = {[id |-> 1, user_id |-> 1, category |-> "health",
                        points_per_completion |-> d * PointsPerDifficulty,
                        start_date |-> (Day0 - run) * TicksPerDay,
                        is_active |-> TRUE]}
                      \cup {[id |-> 2, user_id |-> 1, category |-> Null,
                              points_per_completion |-> PointsPerDifficulty,
                              start_date |-> Day0 * TicksPerDay,
                              is_active |-> TRUE] : x \in {y \in {1} : second}}
          /\ checkins = {[id |-> k, habit_id |-> 1,
                          check_in_date |-> (Day0 - run + k) * TicksPerDay,
                          mood_rating |-> {},
                          points_earned |-> d * PointsPerDifficulty] : k \in 1..run}
          /\ users = [u \in UserIds |->
                        IF u = 1
                        THEN [NewUser EXCEPT
                                !.total_points = run * d * PointsPerDifficulty,
                                !.level = Level(run * d * PointsPerDifficulty)]
                        ELSE NewUser]
          /\ \E held \in SUBSET Qualified(run) : badges = BadgeRowsOf(1, held)
    /\ recs = {}
    /\ Idling
    /\ streak_in = <<>>
    /\ streak_out = -1
    /\ eval_log = <<>>
    /\ NoAdminCalls

\* one call of check_and_award_badges, start to commit
EvalRun(user_id) ==
    LET existing == existing_badges(user_id)
        newly == newly_awarded(user_id, existing)
    IN /\ Len(eval_log) < MaxRuns
       /\ badges' = badges \cup BadgeRows(user_id, newly)
       /\ eval_log' = Append(eval_log,
              [user |-> user_id, existing |-> existing,
               max_streak |-> max_streak(user_id), newly |-> newly,
               at |-> now])
       /\ UNCHANGED <<now, users, habits, checkins, recs, req, started, ticks,
                      streak_in, streak_out, admin>>

\* a habit is retired: soft-deactivated, its rows stay
RetireHabit(habit_id) ==
    /\ \E h \in habits :
          /\ h.id = habit_id
          /\ h.is_active
          /\ habits' = (habits \ {h}) \cup {[h EXCEPT !.is_active = FALSE]}
    /\ UNCHANGED <<now, users, checkins, badges, recs, req, started, ticks, admin, harness>>

NextEval ==
    \/ \E u \in Callers : EvalRun(u)
    \/ \E h \in 1..MaxHabits : RetireHabit(h)
    \/ Tick

SpecEval == InitEval /\ [][NextEval]_vars

\* ------------------------------------------- habit creations in a row
\* Users who have created some habits, none checked in yet, go on creating
\* habits, one request at a time, and retire some of them.
MaxCreated == 6       \* habit rows per behaviour of the creation runs
CreatedBefore == {0, 3, 4}
CreateInputs == {[difficulty |-> 3, category |-> "health"]}

StartCreateNext(r, user_id, input) ==
    /\ Takes(r)
    /\ Cardinality(habits) < MaxCreated
    /\ req' = [req EXCEPT ![r] =
                 get_current_user([Idle EXCEPT !.pc = "insert_habit",
                                               !.kind = "create_habit",
                                               !.difficulty = input.difficulty,
                                               !.category = input.category],
                                  user_id)]
    /\ UNCHANGED <<now, users, habits, checkins, badges, recs, started, ticks, admin, harness>>

InitCreate ==
    /\ now = Day0 * TicksPerDay
    /\ users = [u \in UserIds |-> NewUser]
    /\ \E n \in CreatedBefore :
          habits = {[id |-> k, user_id |-> 1, category |-> "health",
                     points_per_completion |-> PointsPerDifficulty,
                     start_date |-> (Day0 - 1) * TicksPerDay,
                     is_active |-> TRUE] : k \in 1..n}
    /\ checkins = {}
    /\ badges = {}
    /\ recs = {}
    /\ Idling
    /\ streak_in = <<>>
    /\ streak_out = -1
    /\ eval_log = <<>>
    /\ NoAdminCalls

NextCreate ==
    \/ \E r \in Slots, u \in UserIds, i \in CreateInputs :
          Quiescent /\ StartCreateNext(r, u, i)
    \/ \E r \in Slots : InsertHabit(r)
    \/ \E r \in Slots : EvalLoad(r)
    \/ \E r \in Slots : EvalFamilies(r)
    \/ \E r \in Slots : EvalCommit(r)
    \/ \E h \in 1..MaxHabits : Quiescent /\ RetireHabit(h)

SpecCreate == InitCreate /\ [][NextCreate]_vars

\* ------------------------------------------------ get_user_analytics
\* A rate or an average is the exact fraction <<numerator, denominator>>.
FracAdd(a, b) == <<a[1] * b[2] + b[1] * a[2], a[2] * b[2]>>
FracGT(a, n) == a[1] > n * a[2]
FracLT(a, n) == a[1] < n * a[2]

RECURSIVE FracSum(_)
FracSum(fs) ==
    IF fs = <<>> THEN <<0, 1>>
    ELSE FracAdd(fs[1], FracSum(Tail(fs)))

RECURSIVE SumSeq(_)
SumSeq(ns) == IF ns = <<>> THEN 0 ELSE ns[1] + SumSeq(Tail(ns))

RECURSIVE MaxSeq(_)
MaxSeq(ns) ==
    IF Len(ns) = 1 THEN ns[1]
    ELSE IF ns[1] >= MaxSeq(Tail(ns)) THEN ns[1] ELSE MaxSeq(Tail(ns))

\* the same walk as _calculate_streak, ai_service's own copy
_calculate_current_streak(cis) ==
    IF cis = <<>> THEN 0
    ELSE StreakWalk(SortedDesc(cis), 1, 0, Date(now))

RecentCheckIns(h) ==
    {c \in checkins : c.habit_id = h.id
                      /\ c.check_in_date >= now - timedelta(ConsistencyDays)}

days_since_creation_whole(h) == (now - h.start_date) \div TicksPerDay

\* (utcnow - start_date).days + 1
days_since_creation(h) == ((now - h.start_date) \div TicksPerDay) + 1

RateDenominator(h) == Min(ConsistencyDays, days_since_creation(h))

\* len(recent_checkins) / min(30, days_since_creation) * 100
completion_rate(h) == <<Cardinality(RecentCheckIns(h)) * 100, RateDenominator(h)>>

CategoryOf(h) == IF h.category \in {Null, ""} THEN "general" ELSE h.category

\* categories[category] = categories.get(category, 0) + 1, in insertion order
RECURSIVE CountCategories(_, _)
CountCategories(hs, acc) ==
    IF hs = <<>> THEN acc
    ELSE LET c == CategoryOf(hs[1])
             seen == {i \in 1..Len(acc) : acc[i][1] = c}
         IN CountCategories(Tail(hs),
               IF seen = {} THEN Append(acc, <<c, 1>>)
               ELSE [i \in 1..Len(acc) |->
                       IF i \in seen THEN <<c, acc[i][2] + 1>> ELSE acc[i]])

\* [i for i, rate in enumerate(completion_rates) if <flag of rate>]
RECURSIVE Indices(_, _)
Indices(flags, i) ==
    IF i > Len(flags) THEN <<>>
    ELSE (IF flags[i] THEN <<i - 1>> ELSE <<>>) \o Indices(flags, i + 1)

get_user_analytics(user_id) ==
    LET hs == SetToSeq(ActiveHabits(user_id))
        active_streaks == [i \in 1..Len(hs) |->
            _calculate_current_streak(SetToSeq(RecentCheckIns(hs[i])))]
        completion_rates == [i \in 1..Len(hs) |-> completion_rate(hs[i])]
        total == FracSum(completion_rates)
    IN [total_habits |-> Len(hs),
        average_streak |-> IF Len(hs) > 0
                           THEN <<SumSeq(active_streaks), Len(hs)>> ELSE <<0, 1>>,
        average_completion_rate |-> IF Len(hs) > 0
                                    THEN <<total[1], total[2] * Len(hs)>>
                                    ELSE <<0, 1>>,
        best_streak |-> IF Len(hs) > 0 THEN MaxSeq(active_streaks) ELSE 0,
        categories |-> CountCategories(hs, <<>>),
        struggling_habits |->
            Indices([i \in 1..Len(hs) |-> FracLT(completion_rates[i], 50)], 1),
        strong_habits |->
            Indices([i \in 1..Len(hs) |-> FracGT(completion_rates[i], 80)], 1)]

\* --------------------------------------------- generate_recommendation
RecTypes == {"habit_suggestion", "motivation", "improvement"}

\* what the provider call does: it raises, or returns a response whose text
\* is None, empty or some text
ProviderOutcomes == {"raise", Null, "", "ai text"}

Truthy(text) == text # Null /\ text # ""

\* the prompt: the analytics summary with the framing of the type
_create_recommendation_prompt(user_analytics, recommendation_type) ==
    IF recommendation_type \in RecTypes
    THEN <<"base_context", recommendation_type>>
    ELSE <<"base_context">>

get_gemini_recommendation_propagates(outcome) == outcome

\* try: return response.text / except Exception: return None
get_gemini_recommendation(outcome) ==
    IF outcome = "raise" THEN Null ELSE outcome

\* max(categories.items(), key=count)[0]: the first category of maximal count
top_category(categories) ==
    IF categories = <<>> THEN "general"
    ELSE LET best == CHOOSE i \in 1..Len(categories) :
                 /\ \A j \in 1..Len(categories) : categories[j][2] <= categories[i][2]
                 /\ \A j \in 1..(i - 1) : categories[j][2] < categories[i][2]
         IN categories[best][1]

_get_fallback_recommendation(analytics, rec_type) ==
    IF rec_type = "motivation"
    THEN IF FracGT(analytics.average_completion_rate, 70)
         THEN "Excellent work! You're maintaining a high completion rate."
         ELSE "You've taken the first step by tracking habits."
    ELSE IF rec_type = "improvement"
    THEN IF Len(analytics.struggling_habits) > 0
         THEN "Consider focusing on your top performing habits first."
         ELSE "Great foundation! To level up, try the 2-minute rule."
    ELSE IF rec_type = "habit_suggestion"
    THEN "Based on your focus on " \o top_category(analytics.categories)
    ELSE "Keep tracking your habits consistently."

\* POST /recommendations/generate: authentication
StartGenerate(r, user_id, rec_type) ==
    /\ Takes(r)
    /\ started < MaxRequests
    /\ started' = started + 1
    /\ req' = [req EXCEPT ![r] =
                 get_current_user([Idle EXCEPT !.pc = "analytics",
                                               !.kind = "generate",
                                               !.rec_type = rec_type], user_id)]
    /\ UNCHANGED <<now, users, habits, checkins, badges, recs, ticks, admin, harness>>

\* user_analytics = await self.get_user_analytics(user_id, db); a habit whose
\* rate denominator is 0 makes the division raise
Analytics(r) ==
    LET q == req[r]
    IN /\ q.pc = "analytics"
       /\ IF \E h \in ActiveHabits(q.user) : RateDenominator(h) = 0
          THEN req' = [req EXCEPT ![r] = Done(500)]
          ELSE req' = [req EXCEPT ![r].pc = "provider",
                                  ![r].analytics = get_user_analytics(q.user)]
       /\ UNCHANGED <<now, users, habits, checkins, badges, recs, started, ticks,
                      admin, harness>>

ProviderCall_retried(r, outcome) ==
    LET q == req[r]
        again == outcome = "raise" /\ q.provider # "raise"
    IN /\ q.pc = "provider"
       /\ req' = [req EXCEPT
                    ![r].pc = IF again THEN "provider" ELSE "persist",
                    ![r].prompt =
                        IF again THEN q.prompt
                        ELSE _create_recommendation_prompt(q.analytics, q.rec_type),
                    ![r].provider = outcome,
                    ![r].gemini_response = get_gemini_recommendation(outcome)]
       /\ UNCHANGED <<now, users, habits, checkins, badges, recs, started, ticks,
                      admin, harness>>

\* the prompt and the one call to the provider
ProviderCall(r, outcome) ==
    LET q == req[r]
    IN /\ q.pc = "provider"
       /\ req' = [req EXCEPT
                    ![r].pc = "persist",
                    ![r].prompt = _create_recommendation_prompt(q.analytics, q.rec_type),
                    ![r].provider = outcome,
                    ![r].gemini_response = get_gemini_recommendation(outcome)]
       /\ UNCHANGED <<now, users, habits, checkins, badges, recs, started, ticks,
                      admin, harness>>

\* the choice of response and source, the INSERT and its commit; the route
\* answers 500 when nothing was returned
Persist(r) ==
    LET q == req[r]
        from_ai == Truthy(q.gemini_response)
        selected_response ==
            IF from_ai THEN q.gemini_response
            ELSE _get_fallback_recommendation(q.analytics, q.rec_type)
        source_ai == IF from_ai THEN "gemini" ELSE "system"
    IN /\ q.pc = "persist"
       /\ IF Truthy(selected_response)
          THEN /\ recs' = recs \cup
                    {[id |-> NewId(recs), user_id |-> q.user,
                      recommendation_type |-> q.rec_type,
                      content |-> selected_response, source_ai |-> source_ai,
                      priority |-> 1, is_read |-> FALSE,
                      created_at |-> now,
                      expires_at |-> now + timedelta(ExpiryDays)]}
               /\ req' = [req EXCEPT ![r] = Done(200)]
          ELSE /\ recs' = recs
               /\ req' = [req EXCEPT ![r] = Done(500)]
       /\ UNCHANGED <<now, users, habits, checkins, badges, started, ticks, admin, harness>>

RecCallers == {1, 2}

RecScenarios ==
    {[run |-> 0, difficulty |-> 1, young |-> FALSE],
     [run |-> 29, difficulty |-> 1, young |-> TRUE]}

InitRec ==
    /\ \E sc \in RecScenarios : InitTables(sc)
    /\ Idling
    /\ streak_in = <<>>
    /\ streak_out = -1
    /\ eval_log = <<>>
    /\ NoAdminCalls

NextRec ==
    \/ \E r \in Slots, u \in RecCallers, t \in RecTypes : StartGenerate(r, u, t)
    \/ \E r \in Slots : Analytics(r)
    \/ \E r \in Slots, o \in ProviderOutcomes : ProviderCall(r, o)
    \/ \E r \in Slots : Persist(r)
    \/ Tick

SpecRec == InitRec /\ [][NextRec]_vars


\* ------------------------------------ login and the daily recommendation
MaxLogins == 3        \* requests per behaviour of the login runs

has_recommendation_today_of_anyone(user_id) ==
    \E rec \in recs : Date(rec.created_at) = Date(now)

\* existing: a recommendation of the user with func.date(created_at) == today
has_recommendation_today(user_id) ==
    \E rec \in recs : rec.user_id = user_id /\ Date(rec.created_at) = Date(now)

StartLogin(r, user_id, password_ok) ==
    /\ Takes(r)
    /\ started < MaxLogins
    /\ started' = started + 1
    /\ req' = [req EXCEPT ![r] = [Idle EXCEPT !.pc = "login", !.kind = "login",
                                              !.user = user_id,
                                              !.password_ok = password_ok]]
    /\ UNCHANGED <<now, users, habits, checkins, badges, recs, ticks, admin, harness>>

\* the handler: 401 on a wrong password, else the response is built and
\* check_daily_recommendations is scheduled to run after it
Login(r) ==
    LET q == req[r]
    IN /\ q.pc = "login"
       /\ IF q.password_ok
          THEN req' = [req EXCEPT ![r].pc = "daily_check"]
          ELSE req' = [req EXCEPT ![r] = Done(401)]
       /\ UNCHANGED <<now, users, habits, checkins, badges, recs, started, ticks, admin, harness>>

\* check_daily_recommendations: nothing to do when a recommendation of today
\* exists, else generate_recommendation(user_id, "motivation", db)
DailyCheck(r) ==
    LET q == req[r]
    IN /\ q.pc = "daily_check"
       /\ IF has_recommendation_today(q.user)
          THEN req' = [req EXCEPT ![r] = [Done(200) EXCEPT !.kind = "login",
                                                           !.user = q.user]]
          ELSE req' = [req EXCEPT ![r].pc = "analytics",
                                  ![r].rec_type = "motivation"]
       /\ UNCHANGED <<now, users, habits, checkins, badges, recs, started, ticks, admin, harness>>

\* one user's history; the runs start at the last instant of a day
InitDaily ==
    /\ InitTables([run |-> 2, difficulty |-> 1, young |-> FALSE])
    /\ Idling
    /\ streak_in = <<>>
    /\ streak_out = -1
    /\ eval_log = <<>>
    /\ NoAdminCalls

\* logins and generate requests, one at a time, each with its daily check
NextDaily ==
    \/ \E r \in Slots, u \in RecCallers, ok \in BOOLEAN :
          Quiescent /\ StartLogin(r, u, ok)
    \/ \E r \in Slots, u \in RecCallers, t \in RecTypes :
          Quiescent /\ StartGenerate(r, u, t)
    \/ \E r \in Slots : Login(r)
    \/ \E r \in Slots : DailyCheck(r)
    \/ \E r \in Slots : Analytics(r)
    \/ \E r \in Slots, o \in {"raise", "ai text"} : ProviderCall(r, o)
    \/ \E r \in Slots : Persist(r)
    \/ Tick

SpecDaily == InitDaily /\ [][NextDaily]_vars

\* ------------------------------- get_recommendations, mark as read
MaxCalls == 3         \* requests per behaviour of the list runs
Limits == {1, 10}     \* the limit parameter, 10 by default

RecById(id) == CHOOSE rec \in recs : rec.id = id

not_expired_inclusive(rec) == rec.expires_at >= now

\* or_(expires_at.is_(None), expires_at > datetime.utcnow()); every row is
\* written with an expires_at, so the first disjunct selects none
not_expired(rec) == rec.expires_at > now

\* the rows the query selects before ordering and limit
Selected(user_id, unread_only) ==
    {rec \in recs : /\ rec.user_id = user_id
                    /\ unread_only => ~rec.is_read
                    /\ not_expired(rec)}

\* order_by(desc(created_at)).limit(limit): the ids of the first rows, newest
\* first; rows created at the same instant come in any order
ListResults(user_id, unread_only, limit) ==
    LET rows == Selected(user_id, unread_only)
        n == Min(limit, Cardinality(rows))
    IN {ids \in [1..n -> {rec.id : rec \in rows}] :
          /\ \A i, j \in 1..n : i < j =>
                /\ ids[i] # ids[j]
                /\ RecById(ids[i]).created_at >= RecById(ids[j]).created_at
          /\ \A rec \in rows :
                (\A i \in 1..n : ids[i] # rec.id)
                    => \A i \in 1..n : RecById(ids[i]).created_at >= rec.created_at}

StartList(r, user_id, unread_only, limit) ==
    /\ Takes(r)
    /\ started < MaxCalls
    /\ started' = started + 1
    /\ req' = [req EXCEPT ![r] =
                 get_current_user([Idle EXCEPT !.pc = "list", !.kind = "list",
                                               !.unread_only = unread_only,
                                               !.limit = limit], user_id)]
    /\ UNCHANGED <<now, users, habits, checkins, badges, recs, ticks, admin, harness>>

\* the answer keeps the caller and the ids listed
ListRecs(r) ==
    LET q == req[r]
    IN /\ q.pc = "list"
       /\ \E ids \in ListResults(q.user, q.unread_only, q.limit) :
             req' = [req EXCEPT ![r] = [Done(200) EXCEPT !.kind = "list",
                                                         !.user = q.user,
                                                         !.listed = ids]]
       /\ UNCHANGED <<now, users, habits, checkins, badges, recs, started, ticks, admin, harness>>

StartMarkRead(r, user_id, rec_id) ==
    /\ Takes(r)
    /\ started < MaxCalls
    /\ started' = started + 1
    /\ req' = [req EXCEPT ![r] =
                 get_current_user([Idle EXCEPT !.pc = "load_rec",
                                               !.kind = "mark_read",
                                               !.rec_id = rec_id], user_id)]
    /\ UNCHANGED <<now, users, habits, checkins, badges, recs, ticks, admin, harness>>

\* where(and_(id == recommendation_id, user_id == current_user.id))
owned_recommendations(user_id, recommendation_id) ==
    {rec \in recs : rec.id = recommendation_id /\ rec.user_id = user_id}

LoadRec(r) ==
    LET q == req[r]
    IN /\ q.pc = "load_rec"
       /\ IF owned_recommendations(q.user, q.rec_id) = {}
          THEN req' = [req EXCEPT ![r] = Refused(q, 404, "Recommendation not found")]
          ELSE req' = [req EXCEPT ![r].pc = "commit_read"]
       /\ UNCHANGED <<now, users, habits, checkins, badges, recs, started, ticks, admin, harness>>

\* recommendation.is_read = True; await db.commit()
CommitRead(r) ==
    LET q == req[r]
    IN /\ q.pc = "commit_read"
       /\ recs' = {IF rec.id = q.rec_id THEN [rec EXCEPT !.is_read = TRUE] ELSE rec :
                      rec \in recs}
       /\ req' = [req EXCEPT ![r] = Done(200)]
       /\ UNCHANGED <<now, users, habits, checkins, badges, started, ticks, admin, harness>>

\* Recommendations generated up to a week ago, the oldest one week ago to
\* the instant, for users without habits.
PastRecAges == <<timedelta(ExpiryDays), timedelta(ExpiryDays) - 1,
                 timedelta(ExpiryDays) - 1, 1>>
PastRecUsers == <<1, 1, 2, 2>>

PastRecs(n) ==
    {[id |-> k, user_id |-> PastRecUsers[k], recommendation_type |-> "motivation",
      content |-> "ai text", source_ai |-> "gemini", priority |-> 1,
      is_read |-> FALSE,
      created_at |-> Day0 * TicksPerDay - PastRecAges[k],
      expires_at |-> Day0 * TicksPerDay - PastRecAges[k] + timedelta(ExpiryDays)] :
          k \in 1..n}

InitList ==
    /\ now = Day0 * TicksPerDay
    /\ users = [u \in UserIds |-> NewUser]
    /\ habits = {}
    /\ checkins = {}
    /\ badges = {}
    /\ \E n \in 0..Len(PastRecAges) : recs = PastRecs(n)
    /\ Idling
    /\ streak_in = <<>>
    /\ streak_out = -1
    /\ eval_log = <<>>
    /\ NoAdminCalls

NextList ==
    \/ \E r \in Slots, u \in RecCallers, unread \in BOOLEAN, limit \in Limits :
          Quiescent /\ StartList(r, u, unread, limit)
    \/ \E r \in Slots, u \in RecCallers, id \in 1..Len(PastRecAges) :
          Quiescent /\ StartMarkRead(r, u, id)
    \/ \E r \in Slots, u \in RecCallers :
          Quiescent /\ StartGenerate(r, u, "motivation")
    \/ \E r \in Slots : ListRecs(r)
    \/ \E r \in Slots : LoadRec(r)
    \/ \E r \in Slots : CommitRead(r)
    \/ \E r \in Slots : Analytics(r)
    \/ \E r \in Slots, o \in {"raise", "ai text"} : ProviderCall(r, o)
    \/ \E r \in Slots : Persist(r)
    \/ Tick

SpecList == InitList /\ [][NextList]_vars

\* ------------------------------------------- rows of another user
\* Two users with one habit each and recommendations of their own; either
\* of them checks in on any habit id and marks any recommendation id read.
InitOwn ==
    /\ now = Day0 * TicksPerDay
    /\ users = [u \in UserIds |-> NewUser]
    /\ habits = {[id |-> u, user_id |-> u, category |-> "health",
                  points_per_completion |-> PointsPerDifficulty,
                  start_date |-> (Day0 - 1) * TicksPerDay,
                  is_active |-> TRUE] : u \in UserIds}
    /\ checkins = {}
    /\ badges = {}
    /\ recs = PastRecs(Len(PastRecAges) - 1)
    /\ Idling
    /\ streak_in = <<>>
    /\ streak_out = -1
    /\ eval_log = <<>>
    /\ NoAdminCalls

NextOwn ==
    \/ \E r \in Slots, u \in UserIds, h \in 1..MaxHabits : StartCheckIn(r, u, h)
    \/ \E r \in Slots, u \in UserIds, id \in 1..Len(PastRecAges) :
          StartMarkRead(r, u, id)
    \/ \E r \in Slots : LoadHabit(r)
    \/ \E r \in Slots : AwardPoints(r)
    \/ \E r \in Slots : EvalLoad(r)
    \/ \E r \in Slots : EvalFamilies(r)
    \/ \E r \in Slots : EvalCommit(r)
    \/ \E r \in Slots : LoadRec(r)
    \/ \E r \in Slots : CommitRead(r)
    \/ Tick

SpecOwn == InitOwn /\ [][NextOwn]_vars

\* -------------------------------- analytics of habits just created
\* A user with two habits and one with none create habits and ask for a
\* recommendation, one request at a time.
NextAnalytics ==
    \/ \E r \in Slots, u \in RecCallers, i \in HabitInputs :
          Quiescent /\ StartCreateHabit(r, u, i)
    \/ \E r \in Slots, u \in RecCallers, t \in RecTypes :
          Quiescent /\ StartGenerate(r, u, t)
    \/ \E r \in Slots : InsertHabit(r)
    \/ \E r \in Slots : EvalLoad(r)
    \/ \E r \in Slots : EvalFamilies(r)
    \/ \E r \in Slots : EvalCommit(r)
    \/ \E r \in Slots : Analytics(r)
    \/ \E r \in Slots, o \in {"raise", "ai text"} : ProviderCall(r, o)
    \/ \E r \in Slots : Persist(r)
    \/ Tick

SpecAnalytics == InitDaily /\ [][NextAnalytics]_vars

\* ---------------------------- create_first_admin, accept_admin_invite
ClockStepSeconds == 450   \* seconds between two admin calls, when time passes
MaxClockSteps == 2        \* such advances per behaviour
MaxAdminCalls == 3        \* admin calls per behaviour

AdminRoles == {"admin", "super_admin"}

\* the attempts of the address still in the window: attempt_time > window_start
recent_attempts(ip_address) ==
    LET window_start == clock - WindowMinutes * SecondsPerMinute
    IN SelectSeq(admin_rate_limit[ip_address], LAMBDA t : t > window_start)

limit_reached_above(ip_address, max_attempts) ==
    Len(recent_attempts(ip_address)) > max_attempts

\* len(admin_rate_limit[ip_address]) >= max_attempts
limit_reached(ip_address, max_attempts) ==
    Len(recent_attempts(ip_address)) >= max_attempts

\* rate_limit_admin_operations: the list is cleaned in any case, the attempt
\* is recorded when it is let through
rate_limit_admin_operations(ip_address, max_attempts, endpoint) ==
    IF limit_reached(ip_address, max_attempts)
    THEN /\ admin_rate_limit' =
               [admin_rate_limit EXCEPT ![ip_address] = recent_attempts(ip_address)]
         /\ attempts' = attempts
    ELSE /\ admin_rate_limit' =
               [admin_rate_limit EXCEPT
                   ![ip_address] = Append(recent_attempts(ip_address), clock)]
         /\ attempts' = attempts \cup
               {[id |-> Cardinality(attempts) + 1, ip |-> ip_address,
                 endpoint |-> endpoint, at |-> clock]}

\* a refused admin call keeps the address and the endpoint
RefusedAdmin(q, status) == [Done(status) EXCEPT !.kind = q.kind, !.ip = q.ip]

\* create_first_admin up to the first query: the limiter, then the secret
StartCreateFirstAdmin(r, ip_address, email, secret_ok) ==
    LET q == [Idle EXCEPT !.pc = "admin_exists", !.kind = "create_first_admin",
                          !.ip = ip_address, !.email = email,
                          !.secret_ok = secret_ok]
    IN /\ Takes(r)
       /\ started < MaxAdminCalls
       /\ started' = started + 1
       /\ rate_limit_admin_operations(ip_address, FirstAdminAttempts, q.kind)
       /\ req' = [req EXCEPT ![r] =
                    IF limit_reached(ip_address, FirstAdminAttempts)
                    THEN RefusedAdmin(q, 429)
                    ELSE IF ~secret_ok THEN RefusedAdmin(q, 400) ELSE q]
       /\ UNCHANGED <<now, users, habits, checkins, badges, recs, ticks, harness,
                      clock, emails, invites>>

\* select(User).where(role.in_(["admin", "super_admin"])), scalar_one_or_none:
\* more than one row raises
AdminExists(r) ==
    LET q == req[r]
        admin_rows == {id \in DOMAIN users : users[id].role \in AdminRoles}
    IN /\ q.pc = "admin_exists"
       /\ req' = [req EXCEPT ![r] =
                    IF Cardinality(admin_rows) > 1 THEN RefusedAdmin(q, 500)
                    ELSE IF admin_rows # {} THEN RefusedAdmin(q, 400)
                    ELSE [q EXCEPT !.pc = "email_exists"]]
       /\ UNCHANGED <<now, users, habits, checkins, badges, recs, started, ticks,
                      admin, harness>>

\* select(User).where(User.email == email): the email is taken
EmailExists(r) ==
    LET q == req[r]
    IN /\ q.pc = "email_exists"
       /\ req' = [req EXCEPT ![r] =
                    IF \E id \in DOMAIN emails : emails[id] = q.email
                    THEN RefusedAdmin(q, 400)
                    ELSE [q EXCEPT !.pc = "insert_admin"]]
       /\ UNCHANGED <<now, users, habits, checkins, badges, recs, started, ticks,
                      admin, harness>>

email_unique_violated_never(email) == FALSE

\* users.email is unique: the INSERT of a second row with the email fails
email_unique_violated(email) == \E id \in DOMAIN emails : emails[id] = email

\* db.add(User(...)); commit: users.email is unique, and the UPDATE that
\* marks the invitation used must find its row
InsertAdmin(r) ==
    LET q == req[r]
        role == IF q.kind = "create_first_admin" THEN "super_admin" ELSE "admin"
        stale == /\ q.kind = "accept_invite"
                 /\ \A i \in invites : i.id # q.invite_id
    IN /\ q.pc = "insert_admin"
       /\ IF email_unique_violated(q.email) \/ stale
          THEN /\ req' = [req EXCEPT ![r] = RefusedAdmin(q, 500)]
               /\ UNCHANGED <<users, emails, invites>>
          ELSE /\ users' = Append(users, [NewUser EXCEPT !.role = role])
               /\ emails' = Append(emails, q.email)
               /\ invites' = {IF i.id = q.invite_id
                              THEN [i EXCEPT !.is_used = TRUE] ELSE i : i \in invites}
               /\ req' = [req EXCEPT ![r] = Done(200)]
       /\ UNCHANGED <<now, habits, checkins, badges, recs, started, ticks, harness,
                      admin_rate_limit, clock, attempts>>

\* accept_admin_invite up to the first query: the limiter
StartAcceptInvite(r, ip_address, invite_token) ==
    LET q == [Idle EXCEPT !.pc = "verify_invite", !.kind = "accept_invite",
                          !.ip = ip_address, !.invite_token = invite_token]
    IN /\ Takes(r)
       /\ started < MaxAdminCalls
       /\ started' = started + 1
       /\ rate_limit_admin_operations(ip_address, MaxAttempts, q.kind)
       /\ req' = [req EXCEPT ![r] =
                    IF limit_reached(ip_address, MaxAttempts)
                    THEN RefusedAdmin(q, 429) ELSE q]
       /\ UNCHANGED <<now, users, habits, checkins, badges, recs, ticks, harness,
                      clock, emails, invites>>

verify_admin_invite_token_unexpiring(token) ==
    {i \in invites : i.invite_token = token /\ ~i.is_used}

\* verify_admin_invite_token: the unused, unexpired invite with the token
verify_admin_invite_token(token) ==
    {i \in invites : /\ i.invite_token = token
                      /\ ~i.is_used
                      /\ i.expires_at > now}

\* accept_admin_invite: "Invalid or expired invitation"
VerifyInvite(r) ==
    LET q == req[r]
        found == verify_admin_invite_token(q.invite_token)
    IN /\ q.pc = "verify_invite"
       /\ req' = [req EXCEPT ![r] =
                    IF found = {} THEN RefusedAdmin(q, 400)
                    ELSE LET invite == CHOOSE i \in found : TRUE
                         IN [q EXCEPT !.pc = "email_exists",
                                      !.invite_id = invite.id,
                                      !.email = invite.email]]
       /\ UNCHANGED <<now, users, habits, checkins, badges, recs, started, ticks,
                      admin, harness>>

\* time passes between two admin calls
ClockStep ==
    /\ clock - (now * SecondsPerDay) \div TicksPerDay
          < MaxClockSteps * ClockStepSeconds
    /\ clock' = clock + ClockStepSeconds
    /\ UNCHANGED <<now, users, habits, checkins, badges, recs, req, started, ticks,
                   harness, admin_rate_limit, emails, invites, attempts>>

\* the invite acceptances an address was let through to, one step ago
PriorAttempts == {2, 4}

\* No admin yet, or a super admin who has sent one invitation; the first
\* address has called before.
InitAdmin ==
    /\ now = Day0 * TicksPerDay
    /\ habits = {}
    /\ checkins = {}
    /\ badges = {}
    /\ recs = {}
    /\ \E invited \in BOOLEAN :
          /\ users = IF invited
                     THEN <<NewUser, NewUser, [NewUser EXCEPT !.role = "super_admin"]>>
                     ELSE <<NewUser, NewUser>>
          /\ emails = IF invited
                      THEN <<"one@example.com", "two@example.com", "root@example.com">>
                      ELSE <<"one@example.com", "two@example.com">>
          /\ invites = {[id |-> 1, email |-> "new@example.com",
                         invite_token |-> "token", invited_by |-> 3,
                         is_used |-> FALSE, expires_at |-> now + 1] : x \in {y \in {1} : invited}}
    /\ clock = (now * SecondsPerDay) \div TicksPerDay
    /\ \E n \in PriorAttempts :
          /\ admin_rate_limit =
                [a \in Addresses |->
                    IF a = "10.0.0.1"
                    THEN [k \in 1..n |-> clock - ClockStepSeconds] ELSE <<>>]
          /\ attempts = {[id |-> k, ip |-> "10.0.0.1", endpoint |-> "accept_invite",
                          at |-> clock - ClockStepSeconds] : k \in 1..n}
    /\ Idling
    /\ streak_in = <<>>
    /\ streak_out = -1
    /\ eval_log = <<>>

\* admin calls from two addresses, one at a time
NextAdmin ==
    \/ \E r \in Slots, a \in Addresses, ok \in BOOLEAN :
          Quiescent /\ StartCreateFirstAdmin(r, a, "root@example.com", ok)
    \/ \E r \in Slots, a \in Addresses :
          Quiescent /\ StartAcceptInvite(r, a, "token")
    \/ \E r \in Slots : AdminExists(r)
    \/ \E r \in Slots : EmailExists(r)
    \/ \E r \in Slots : InsertAdmin(r)
    \/ \E r \in Slots : VerifyInvite(r)
    \/ ClockStep

SpecAdmin == InitAdmin /\ [][NextAdmin]_vars

\* ------------------------------------------ the admin and account routes
MaxAccountCalls == 3      \* account and admin calls per behaviour
InviteHours == 48

get_current_admin_any(user_id) == TRUE

\* get_current_admin: user.role in ["admin", "super_admin"], else 403
get_current_admin(user_id) == users[user_id].role \in AdminRoles

\* get_current_super_admin: user.role == "super_admin", else 403
get_current_super_admin(user_id) == users[user_id].role = "super_admin"

\* a finished account call: the status and what was asked for
Answered(q, status) ==
    [Done(status) EXCEPT !.kind = q.kind, !.user = q.user, !.ip = q.ip,
                         !.email = q.email, !.role = q.role,
                         !.invite_id = q.invite_id]

\* select(User).where(User.email == email) finds a row
email_registered(email) == \E id \in DOMAIN emails : emails[id] = email

\* GET /admin/users: every user row
get_users(r, user_id) ==
    LET q == [Idle EXCEPT !.kind = "get_users", !.user = user_id]
    IN /\ Takes(r)
       /\ started < MaxAccountCalls
       /\ started' = started + 1
       /\ req' = [req EXCEPT ![r] =
                    IF ~get_current_admin(user_id) THEN Answered(q, 403)
                    ELSE [Answered(q, 200) EXCEPT
                             !.listed = [id \in 1..Len(users) |-> id]]]
       /\ UNCHANGED <<now, users, habits, checkins, badges, recs, ticks, admin,
                      harness>>

\* GET /admin/analytics: the platform's counts; the average is kept as the
\* pair numerator, denominator
get_admin_analytics(r, user_id) ==
    LET q == [Idle EXCEPT !.kind = "get_admin_analytics", !.user = user_id]
        week_ago == now - timedelta(DaysPerWeek)
        active == {h.user_id : h \in {x \in habits :
                       \E c \in checkins : /\ c.habit_id = x.id
                                           /\ c.check_in_date >= week_ago}}
        total_users == Len(users)
        total_habits == Cardinality(habits)
    IN /\ Takes(r)
       /\ started < MaxAccountCalls
       /\ started' = started + 1
       /\ req' = [req EXCEPT ![r] =
                    IF ~get_current_admin(user_id) THEN Answered(q, 403)
                    ELSE [Answered(q, 200) EXCEPT
                             !.analytics =
                                [total_users |-> total_users,
                                 total_habits |-> total_habits,
                                 total_checkins |-> Cardinality(checkins),
                                 active_users_last_7_days |-> Cardinality(active),
                                 average_habits_per_user |->
                                    IF total_users > 0
                                    THEN <<total_habits, total_users>>
                                    ELSE <<0, 1>>]]]
       /\ UNCHANGED <<now, users, habits, checkins, badges, recs, ticks, admin,
                      harness>>

\* POST /admin/users up to the first query
StartCreateUser(r, user_id, email, role) ==
    LET q == [Idle EXCEPT !.pc = "email_registered", !.kind = "create_user",
                          !.user = user_id, !.email = email, !.role = role]
    IN /\ Takes(r)
       /\ started < MaxAccountCalls
       /\ started' = started + 1
       /\ req' = [req EXCEPT ![r] =
                    IF ~get_current_admin(user_id) THEN Answered(q, 403) ELSE q]
       /\ UNCHANGED <<now, users, habits, checkins, badges, recs, ticks, admin,
                      harness>>

\* POST /signup: no caller, no role in the request
StartSignup(r, email) ==
    /\ Takes(r)
    /\ started < MaxAccountCalls
    /\ started' = started + 1
    /\ req' = [req EXCEPT ![r] =
                 [Idle EXCEPT !.pc = "email_registered", !.kind = "signup",
                              !.email = email]]
    /\ UNCHANGED <<now, users, habits, checkins, badges, recs, ticks, admin,
                   harness>>

\* signup and create_user: "Email already registered"
EmailRegistered(r) ==
    LET q == req[r]
    IN /\ q.pc = "email_registered"
       /\ req' = [req EXCEPT ![r] =
                    IF email_registered(q.email) THEN Answered(q, 400)
                    ELSE [q EXCEPT !.pc = "insert_user"]]
       /\ UNCHANGED <<now, users, habits, checkins, badges, recs, started, ticks,
                      admin, harness>>

\* signup and create_user: db.add(new_user); commit.  signup leaves the role
\* to the column's default, create_user takes it from the request.
InsertUser(r) ==
    LET q == req[r]
        role == IF q.kind = "signup" THEN "user" ELSE q.role
    IN /\ q.pc = "insert_user"
       /\ IF email_unique_violated(q.email)
          THEN /\ req' = [req EXCEPT ![r] = Answered(q, 500)]
               /\ UNCHANGED <<users, emails>>
          ELSE /\ users' = Append(users, [NewUser EXCEPT !.role = role])
               /\ emails' = Append(emails, q.email)
               /\ req' = [req EXCEPT ![r] = Answered(q, 200)]
       /\ UNCHANGED <<now, habits, checkins, badges, recs, started, ticks, harness,
                      admin_rate_limit, clock, invites, attempts>>

\* secrets.token_urlsafe: a token no other call has drawn; the call is the
\* n-th of the behaviour
token_urlsafe(n) == "token " \o ToString(n)

\* POST /admin/invite up to the first query: the caller's role, the limiter,
\* the secret
StartInviteAdmin(r, user_id, ip_address, email, secret_ok) ==
    LET q == [Idle EXCEPT !.pc = "invite_user_exists", !.kind = "invite_admin",
                          !.user = user_id, !.ip = ip_address, !.email = email,
                          !.secret_ok = secret_ok,
                          !.invite_token = token_urlsafe(started + 1)]
    IN /\ Takes(r)
       /\ started < MaxAccountCalls
       /\ started' = started + 1
       /\ IF ~get_current_super_admin(user_id)
          THEN /\ req' = [req EXCEPT ![r] = Answered(q, 403)]
               /\ UNCHANGED <<admin_rate_limit, attempts>>
          ELSE /\ rate_limit_admin_operations(ip_address, MaxAttempts, q.kind)
               /\ req' = [req EXCEPT ![r] =
                            IF limit_reached(ip_address, MaxAttempts)
                            THEN Answered(q, 429)
                            ELSE IF ~secret_ok THEN Answered(q, 403) ELSE q]
       /\ UNCHANGED <<now, users, habits, checkins, badges, recs, ticks, harness,
                      clock, emails, invites>>

\* invite_admin: "User already exists"
InviteUserExists(r) ==
    LET q == req[r]
    IN /\ q.pc = "invite_user_exists"
       /\ req' = [req EXCEPT ![r] =
                    IF email_registered(q.email) THEN Answered(q, 400)
                    ELSE [q EXCEPT !.pc = "invite_exists"]]
       /\ UNCHANGED <<now, users, habits, checkins, badges, recs, started, ticks,
                      admin, harness>>

\* invite_admin: "Valid invitation already exists"; scalar_one_or_none raises
\* on more than one row
InviteExists(r) ==
    LET q == req[r]
        valid == {i \in invites : /\ i.email = q.email
                                  /\ ~i.is_used
                                  /\ i.expires_at > now}
    IN /\ q.pc = "invite_exists"
       /\ req' = [req EXCEPT ![r] =
                    IF Cardinality(valid) > 1 THEN Answered(q, 500)
                    ELSE IF valid # {} THEN Answered(q, 400)
                    ELSE [q EXCEPT !.pc = "insert_invite"]]
       /\ UNCHANGED <<now, users, habits, checkins, badges, recs, started, ticks,
                      admin, harness>>

\* the highest id of the table plus one
NewInviteId ==
    IF invites = {} THEN 1
    ELSE (CHOOSE n \in {i.id : i \in invites} :
              \A i \in invites : i.id <= n) + 1

\* invite_admin: expires_at = utcnow() + timedelta(hours=48); add; commit
InsertInvite(r) ==
    LET q == req[r]
    IN /\ q.pc = "insert_invite"
       /\ invites' = invites \cup
             {[id |-> NewInviteId, email |-> q.email,
               invite_token |-> q.invite_token, invited_by |-> q.user,
               is_used |-> FALSE,
               expires_at |-> now + (InviteHours * TicksPerDay) \div 24]}
       /\ req' = [req EXCEPT ![r] = [Answered(q, 200) EXCEPT
                                        !.invite_token = q.invite_token]]
       /\ UNCHANGED <<now, users, habits, checkins, badges, recs, started, ticks,
                      harness, admin_rate_limit, clock, emails, attempts>>

\* GET /admin/invites: every invitation, the latest first
list_admin_invites(r, user_id) ==
    LET q == [Idle EXCEPT !.kind = "list_admin_invites", !.user = user_id]
        ids == {i.id : i \in invites}
        rank(id) == Cardinality({j \in ids : j >= id})
    IN /\ Takes(r)
       /\ started < MaxAccountCalls
       /\ started' = started + 1
       /\ req' = [req EXCEPT ![r] =
                    IF ~get_current_super_admin(user_id) THEN Answered(q, 403)
                    ELSE [Answered(q, 200) EXCEPT
                             !.listed = [k \in 1..Cardinality(ids) |->
                                            CHOOSE id \in ids : rank(id) = k]]]
       /\ UNCHANGED <<now, users, habits, checkins, badges, recs, ticks, admin,
                      harness>>

\* DELETE /admin/invites/{invite_id} up to the first query
StartRevokeInvite(r, user_id, invite_id) ==
    LET q == [Idle EXCEPT !.pc = "load_invite", !.kind = "revoke_admin_invite",
                          !.user = user_id, !.invite_id = invite_id]
    IN /\ Takes(r)
       /\ started < MaxAccountCalls
       /\ started' = started + 1
       /\ req' = [req EXCEPT ![r] =
                    IF ~get_current_super_admin(user_id) THEN Answered(q, 403)
                    ELSE q]
       /\ UNCHANGED <<now, users, habits, checkins, badges, recs, ticks, admin,
                      harness>>

\* revoke_admin_invite: "Invitation not found"
LoadInvite(r) ==
    LET q == req[r]
    IN /\ q.pc = "load_invite"
       /\ req' = [req EXCEPT ![r] =
                    IF \A i \in invites : i.id # q.invite_id
                    THEN Answered(q, 404)
                    ELSE [q EXCEPT !.pc = "delete_invite"]]
       /\ UNCHANGED <<now, users, habits, checkins, badges, recs, started, ticks,
                      admin, harness>>

\* revoke_admin_invite: db.delete(invite); commit
DeleteInvite(r) ==
    LET q == req[r]
    IN /\ q.pc = "delete_invite"
       /\ invites' = {i \in invites : i.id # q.invite_id}
       /\ req' = [req EXCEPT ![r] = Answered(q, 200)]
       /\ UNCHANGED <<now, users, habits, checkins, badges, recs, started, ticks,
                      harness, admin_rate_limit, clock, emails, attempts>>

\* ------------------------------------------------- callers of every role
AccountEmails == {"one@example.com", "new@example.com"}
RequestedRoles == {"user", "admin", "super_admin"}

\* Either the two users only, or also an admin and the super admin, who has
\* sent one invitation.
InitRoles ==
    /\ now = Day0 * TicksPerDay
    /\ habits = {}
    /\ checkins = {}
    /\ badges = {}
    /\ recs = {}
    /\ \E staffed \in BOOLEAN :
          /\ users = IF staffed
                     THEN <<NewUser, NewUser, [NewUser EXCEPT !.role = "admin"],
                            [NewUser EXCEPT !.role = "super_admin"]>>
                     ELSE <<NewUser, NewUser>>
          /\ emails = IF staffed
                      THEN <<"one@example.com", "two@example.com",
                             "staff@example.com", "root@example.com">>
                      ELSE <<"one@example.com", "two@example.com">>
          /\ invites = {[id |-> 1, email |-> "new@example.com",
                         invite_token |-> "token", invited_by |-> 4,
                         is_used |-> FALSE, expires_at |-> now + 1] :
                            x \in {y \in {1} : staffed}}
    /\ clock = (now * SecondsPerDay) \div TicksPerDay
    /\ admin_rate_limit = [a \in Addresses |-> <<>>]
    /\ attempts = {}
    /\ Idling
    /\ streak_in = <<>>
    /\ streak_out = -1
    /\ eval_log = <<>>

\* every account and admin route, called by every user, one call at a time
NextRoles ==
    \/ \E r \in Slots, u \in DOMAIN users : Quiescent /\ get_users(r, u)
    \/ \E r \in Slots, u \in DOMAIN users : Quiescent /\ get_admin_analytics(r, u)
    \/ \E r \in Slots, u \in DOMAIN users : Quiescent /\ list_admin_invites(r, u)
    \/ \E r \in Slots, u \in DOMAIN users, e \in AccountEmails, o \in RequestedRoles :
          Quiescent /\ StartCreateUser(r, u, e, o)
    \/ \E r \in Slots, e \in AccountEmails : Quiescent /\ StartSignup(r, e)
    \/ \E r \in Slots, u \in DOMAIN users, ok \in BOOLEAN :
          Quiescent /\ StartInviteAdmin(r, u, "10.0.0.1", "next@example.com", ok)
    \/ \E r \in Slots, u \in DOMAIN users, i \in 1..2 :
          Quiescent /\ StartRevokeInvite(r, u, i)
    \/ \E r \in Slots, ok \in BOOLEAN :
          Quiescent /\ StartCreateFirstAdmin(r, "10.0.0.2", "root@example.com", ok)
    \/ \E r \in Slots : Quiescent /\ StartAcceptInvite(r, "10.0.0.2", "token")
    \/ \E r \in Slots : EmailRegistered(r)
    \/ \E r \in Slots : InsertUser(r)
    \/ \E r \in Slots : InviteUserExists(r)
    \/ \E r \in Slots : InviteExists(r)
    \/ \E r \in Slots : InsertInvite(r)
    \/ \E r \in Slots : LoadInvite(r)
    \/ \E r \in Slots : DeleteInvite(r)
    \/ \E r \in Slots : AdminExists(r)
    \/ \E r \in Slots : EmailExists(r)
    \/ \E r \in Slots : InsertAdmin(r)
    \/ \E r \in Slots : VerifyInvite(r)

SpecRoles == InitRoles /\ [][NextRoles]_vars

\* ------------------------------------------- invitations and their use
\* ticks between the issue of the first invitation and now
InviteAges == {3, 5}

\* The super admin has sent one invitation, `age` ticks ago; accept, invite
\* and revoke calls overlap and time passes.
InitInvite ==
    /\ now = Day0 * TicksPerDay
    /\ habits = {}
    /\ checkins = {}
    /\ badges = {}
    /\ recs = {}
    /\ users = <<NewUser, NewUser, [NewUser EXCEPT !.role = "super_admin"]>>
    /\ emails = <<"one@example.com", "two@example.com", "root@example.com">>
    /\ \E age \in InviteAges :
          invites = {[id |-> 1, email |-> "new@example.com",
                      invite_token |-> "token", invited_by |-> 3,
                      is_used |-> FALSE,
                      expires_at |-> now - age
                                       + (InviteHours * TicksPerDay) \div 24]}
    /\ clock = (now * SecondsPerDay) \div TicksPerDay
    /\ admin_rate_limit = [a \in Addresses |-> <<>>]
    /\ attempts = {}
    /\ Idling
    /\ streak_in = <<>>
    /\ streak_out = -1
    /\ eval_log = <<>>

\* the tokens a caller may present: the first one, and those issued since
KnownTokens == {"token"} \cup {i.invite_token : i \in invites}

NextInvite ==
    \/ \E r \in Slots, t \in KnownTokens : StartAcceptInvite(r, "10.0.0.2", t)
    \/ \E r \in Slots, e \in {"new@example.com", "next@example.com"} :
          StartInviteAdmin(r, 3, "10.0.0.1", e, TRUE)
    \/ \E r \in Slots, i \in 1..2 : StartRevokeInvite(r, 3, i)
    \/ \E r \in Slots : VerifyInvite(r)
    \/ \E r \in Slots : EmailExists(r)
    \/ \E r \in Slots : InsertAdmin(r)
    \/ \E r \in Slots : InviteUserExists(r)
    \/ \E r \in Slots : InviteExists(r)
    \/ \E r \in Slots : InsertInvite(r)
    \/ \E r \in Slots : LoadInvite(r)
    \/ \E r \in Slots : DeleteInvite(r)
    \/ Tick

SpecInvite == InitInvite /\ [][NextInvite]_vars

\* ------------------------------------- overlapping requests for one email
\* signup, create_user, accept_admin_invite and create_first_admin for the
\* invited address, overlapping
NextEmail ==
    \/ \E r \in Slots, e \in AccountEmails : StartSignup(r, e)
    \/ \E r \in Slots, e \in AccountEmails,
          u \in {id \in DOMAIN users : users[id].role \in AdminRoles} :
             StartCreateUser(r, u, e, "user")
    \/ \E r \in Slots : StartAcceptInvite(r, "10.0.0.2", "token")
    \/ \E r \in Slots : StartCreateFirstAdmin(r, "10.0.0.1", "new@example.com", TRUE)
    \/ \E r \in Slots : EmailRegistered(r)
    \/ \E r \in Slots : InsertUser(r)
    \/ \E r \in Slots : VerifyInvite(r)
    \/ \E r \in Slots : AdminExists(r)
    \/ \E r \in Slots : EmailExists(r)
    \/ \E r \in Slots : InsertAdmin(r)

SpecEmail == InitRoles /\ [][NextEmail]_vars

\* ------------------------------------- a provider that does not respond
\* client.models.generate_content is called without a timeout and is not
\* awaited: when the provider never answers, the call never returns and
\* nothing else moves the request.
ProviderHangs(r) ==
    /\ req[r].pc = "provider"
    /\ req' = [req EXCEPT ![r].pc = "blocked"]
    /\ UNCHANGED <<now, users, habits, checkins, badges, recs, started, ticks, admin, harness>>

\* the steps of a request from the provider call on: the provider's answer
\* when there is one, then the INSERT and its commit
RecStep(r) ==
    \/ \E o \in ProviderOutcomes : ProviderCall(r, o)
    \/ Persist(r)

InitRecLive ==
    /\ InitTables([run |-> 2, difficulty |-> 1, young |-> FALSE])
    /\ Idling
    /\ streak_in = <<>>
    /\ streak_out = -1
    /\ eval_log = <<>>
    /\ NoAdminCalls

NextRecLive ==
    \/ \E r \in Slots, u \in Callers, t \in RecTypes : StartGenerate(r, u, t)
    \/ \E r \in Slots : Analytics(r)
    \/ \E r \in Slots : RecStep(r)
    \/ \E r \in Slots : ProviderHangs(r)
    \/ Tick

\* the event loop resumes every request whose call has returned
SpecRecLive ==
    InitRecLive /\ [][NextRecLive]_vars /\ \A r \in Slots : WF_vars(RecStep(r))

\* ================================================================ claims

CheckInsOn(habit_id, day) ==
    {c \in checkins : c.habit_id = habit_id /\ Date(c.check_in_date) = day}

\* C1: under any interleaving of check-in requests no habit ever has two
\* check-ins on one calendar day (so its points are added at most once a day).
C1_OneCheckInPerHabitPerDay ==
    \A c1, c2 \in checkins :
        (c1.habit_id = c2.habit_id
         /\ Date(c1.check_in_date) = Date(c2.check_in_date)) => c1 = c2

\* C2: a check-in request for a habit that already has a check-in dated today
\* ends with the 400 "already checked in" error and changes no table; the
\* habit still has exactly one check-in for the day.
C2_SecondCheckInRejected ==
    [][\A r \in Slots :
          (/\ req[r].pc = "load_habit"
           /\ req'[r] # req[r]
           /\ \E h \in habits : h.id = req[r].habit_id /\ h.user_id = req[r].user
           /\ CheckInsOn(req[r].habit_id, Date(now)) # {})
          => (/\ req'[r].pc = "done"
              /\ req'[r].status = 400
              /\ checkins' = checkins
              /\ users' = users
              /\ badges' = badges
              /\ Cardinality(CheckInsOn(req[r].habit_id, Date(now))) = 1)]_vars

C2_Witness ==
    \E r \in Slots :
        /\ req[r].pc = "done"
        /\ req[r].status = 400
        /\ \E h \in habits : Cardinality(CheckInsOn(h.id, Date(now))) = 1

\* C3: every user's level is floor(total_points / 1000) + 1 in every state.
C3_LevelFollowsPoints ==
    \A u \in UserIds : users[u].level = (users[u].total_points \div 1000) + 1

\* C4: no step ever lowers a user's stored total_points, and it is never
\* negative.
C4_PointsMonotonic ==
    [][\A u \in UserIds :
          /\ users'[u].total_points >= users[u].total_points
          /\ users'[u].total_points >= 0]_vars

RECURSIVE PriorRun(_, _)
PriorRun(habit_id, day) ==
    IF CheckInsOn(habit_id, day - 1) = {} THEN 0
    ELSE 1 + PriorRun(habit_id, day - 1)

\* C5: a check-in that is recorded earns points_per_completion plus 5 points
\* for each full week (at most 5 weeks) of the run of consecutive check-in
\* days that ended the day before.
C5_BonusFromPriorStreak ==
    [][\A c \in checkins' \ checkins :
          \E h \in habits :
             /\ h.id = c.habit_id
             /\ LET s == PriorRun(c.habit_id, Date(c.check_in_date))
                    weeks == IF s \div 7 < 5 THEN s \div 7 ELSE 5
                IN c.points_earned = h.points_per_completion + weeks * 5]_vars

StreakDays == {Date(streak_in[i].check_in_date) : i \in 1..Len(streak_in)}

LongestRunToToday ==
    CHOOSE k \in 0..Len(streak_in) :
        /\ \A j \in 0..(k - 1) : (Date(now) - j) \in StreakDays
        /\ (Date(now) - k) \notin StreakDays

\* C6: for check-ins on pairwise different calendar days, in any order,
\* _calculate_streak returns the largest k such that each of the days
\* today, today-1, ..., today-(k-1) has a check-in.
C6_StreakIsRunEndingToday ==
    (streak_out # -1 /\ Cardinality(StreakDays) = Len(streak_in))
        => streak_out = LongestRunToToday

\* check-ins handed over oldest first: today-2, today-1, today
C6_Witness ==
    /\ streak_out = 3
    /\ Len(streak_in) = 3
    /\ \A i \in 1..3 : Date(streak_in[i].check_in_date) = Date(now) - 3 + i

\* C7: a user never holds two badges of one type, whatever the interleaving
\* of the requests that run the badge evaluator.
C7_OneBadgePerType ==
    \A b1, b2 \in badges :
        (b1.user_id = b2.user_id /\ b1.badge_type = b2.badge_type) => b1 = b2

\* C8: an evaluator run that directly follows another run, with no state
\* change in between, awards nothing.
C8_SecondRunAwardsNothing ==
    \A i \in 2..Len(eval_log) :
        (eval_log[i].user = eval_log[i - 1].user /\ eval_log[i].at = eval_log[i - 1].at)
            => eval_log[i].newly = <<>>

InList(x, list) == \E i \in 1..Len(list) : list[i] = x

\* C9: a user who holds no badge and whose first evaluator run sees a maximum
\* streak of 30 or more gets MONTH_MASTER from it, and no later run awards
\* WEEK_WARRIOR or STREAK_STARTER.
C9_NoBackfill ==
    (Len(eval_log) >= 1 /\ eval_log[1].existing = {}
     /\ eval_log[1].max_streak >= 30)
        => /\ InList(MONTH_MASTER, eval_log[1].newly)
           /\ \A i \in 1..Len(eval_log) :
                 /\ ~InList(WEEK_WARRIOR, eval_log[i].newly)
                 /\ ~InList(STREAK_STARTER, eval_log[i].newly)

\* C10: whatever the provider call does, generate_recommendation returns a
\* persisted recommendation of the requested type with non-empty content;
\* its source is "gemini", and its content the provider's text, exactly when
\* the call returned non-empty text, and "system" otherwise.
C10_FallbackNeverFails ==
    [][\A r \in Slots :
          (req[r].pc = "persist" /\ req'[r] # req[r])
          => /\ req'[r].status = 200
             /\ \E rec \in recs' :
                   /\ recs' \ recs = {rec}
                   /\ rec.user_id = req[r].user
                   /\ rec.recommendation_type = req[r].rec_type
                   /\ rec.content \notin {Null, ""}
                   /\ IF req[r].provider \in {"raise", Null, ""}
                      THEN rec.source_ai = "system"
                      ELSE /\ rec.source_ai = "gemini"
                           /\ rec.content = req[r].provider]_vars

\* a system-sourced recommendation for the user who has no habit
C10_Witness ==
    \E rec \in recs :
        /\ rec.source_ai = "system"
        /\ rec.user_id = 2
        /\ UserHabits(2) = {}
        /\ rec.content # ""

\* the rows a request in flight has written: its check-in, its habit
OwnCheckIns(q) ==
    {c \in checkins : /\ q.kind = "check_in"
                      /\ q.pc \notin {"load_habit", "award"}
                      /\ c.habit_id = q.habit_id
                      /\ c.check_in_date = q.check_in_date}

OwnHabits(q) ==
    {h \in habits : /\ q.kind = "create_habit"
                    /\ q.pc # "insert_habit"
                    /\ h.id = q.habit_id}

\* C11: a check-in or habit creation is all or nothing: a request that fails
\* at any step leaves neither its check-in (with the points) nor its habit
\* committed, so no committed check-in or habit is left without the badges
\* its evaluator run would have persisted.
C11_AllOrNothing ==
    [][\A r \in Slots :
          (req[r].pc \notin {"idle", "done"} /\ req'[r] = Done(500))
              => (OwnCheckIns(req[r]) = {} /\ OwnHabits(req[r]) = {})]_vars

\* C12: when several check-ins fall on one calendar day the day counts once
\* and the walk goes on to the day before: two check-ins today and one
\* yesterday give a streak of 2.
C12_SameDayCountsOnce ==
    (streak_out # -1 /\ Cardinality(StreakDays) < Len(streak_in))
        => streak_out = LongestRunToToday

\* the check-ins of the last 30 days on the user's active habits
ActiveRecentCheckIns(user_id) ==
    {c \in checkins :
        /\ \E h \in ActiveHabits(user_id) : c.habit_id = h.id
        /\ c.check_in_date >= now - timedelta(ConsistencyDays)}

\* C13: an evaluator run awards CONSISTENCY_KING exactly when the user does
\* not hold it, has an active habit, and the check-ins of the last 30 days
\* on the active habits are at least 90% of 30 per active habit; check-ins
\* of inactive habits do not count.
C13_ConsistencyOverActiveHabits ==
    [][eval_log' # eval_log =>
          LET e == eval_log'[Len(eval_log')]
              active == Cardinality(ActiveHabits(e.user))
          IN InList(CONSISTENCY_KING, e.newly)
                <=> /\ CONSISTENCY_KING \notin e.existing
                    /\ active > 0
                    /\ Cardinality(ActiveRecentCheckIns(e.user)) * 100
                          >= ConsistencyRate * (active * ConsistencyDays)]_vars

\* C14: after any sequence of habit creations a user holds HABIT_CREATOR
\* exactly when they have created at least 5 habits, inactive ones included:
\* nobody with fewer than 5 habits holds it, and once the request that
\* creates the 5th habit has ended the badge is held.
C14_CreatorBadgeAtFive ==
    \A u \in UserIds :
        /\ HABIT_CREATOR \in existing_badges(u)
              => Cardinality(UserHabits(u)) >= CreatorHabits
        /\ (Quiescent /\ Cardinality(UserHabits(u)) >= CreatorHabits)
              => HABIT_CREATOR \in existing_badges(u)

\* the request that created the 5th habit has ended, one habit was retired
C14_Witness ==
    \E u \in UserIds :
        /\ Quiescent
        /\ Cardinality(UserHabits(u)) = CreatorHabits
        /\ Cardinality(ActiveHabits(u)) < CreatorHabits
        /\ Cardinality(habits) > CreatorHabits
        /\ HABIT_CREATOR \in existing_badges(u)

\* C15: every generate_recommendation request that has come to its provider
\* call eventually completes, also when the provider never responds: the
\* provider call is bounded in time.
C15_GenerateCompletes ==
    \A r \in Slots : (req[r].pc = "provider") ~> (req[r].pc = "done")

RecsOn(table, user_id, day) ==
    {rec \in table : rec.user_id = user_id /\ Date(rec.created_at) = day}

RecIds(table) == {rec.id : rec \in table}

\* C17: a recommendation generated at t gets expires_at = t + 7 days; a
\* listing at t' returns it only if it is the caller's and t' < t + 7 days;
\* no recommendation is ever deleted, expired or not.
C17_ListedOnlyBeforeExpiry ==
    [][/\ \A rec \in recs : \E kept \in recs' :
             /\ kept.id = rec.id
             /\ kept.created_at = rec.created_at
             /\ kept.expires_at = rec.expires_at
       /\ \A new \in recs' :
             new.id \notin RecIds(recs)
                => /\ new.created_at = now
                   /\ new.expires_at = now + timedelta(ExpiryDays)
       /\ \A r \in Slots :
             (req[r].pc = "list" /\ req'[r].pc = "done")
                => \A i \in 1..Len(req'[r].listed) :
                      LET rec == RecById(req'[r].listed[i])
                      IN /\ rec.user_id = req[r].user
                         /\ now < rec.created_at + timedelta(ExpiryDays)]_vars

\* a listing has returned the caller's newer recommendation and left out the
\* one that expired at this instant, which is still in the table
C17_Witness ==
    \E r \in Slots :
        /\ req[r].pc = "done" /\ req[r].kind = "list"
        /\ Len(req[r].listed) > 0
        /\ \E rec \in recs :
              /\ rec.user_id = req[r].user
              /\ rec.expires_at = now
              /\ \A i \in 1..Len(req[r].listed) : req[r].listed[i] # rec.id

NotFound(q, detail) ==
    /\ q.pc = "done"
    /\ q.status = 404
    /\ q.detail = detail

\* C18: a check-in on a habit id, or a mark-as-read on a recommendation id,
\* that belongs to another user is answered like one on an id that does not
\* exist, with the same not-found status and detail, and changes no row.
C18_ForeignLikeMissing ==
    [][\A r \in Slots :
          LET q == req[r]
          IN /\ (q.pc = "load_habit" /\ req'[r] # q
                    /\ ~\E h \in habits : h.id = q.habit_id /\ h.user_id = q.user)
                => /\ NotFound(req'[r], "Habit not found")
                   /\ UNCHANGED <<users, habits, checkins, badges, recs>>
             /\ (q.pc = "load_rec" /\ req'[r] # q
                    /\ ~\E rec \in recs : rec.id = q.rec_id /\ rec.user_id = q.user)
                => /\ NotFound(req'[r], "Recommendation not found")
                   /\ UNCHANGED <<users, habits, checkins, badges, recs>>]_vars

\* both refusals have happened on rows that exist and are another user's
C18_Witness ==
    \E r, s \in Slots :
        /\ NotFound(req[r], "Habit not found")
        /\ \E h \in habits : h.id = req[r].habit_id /\ h.user_id # req[r].user
        /\ NotFound(req[s], "Recommendation not found")
        /\ \E rec \in recs : rec.id = req[s].rec_id /\ rec.user_id # req[s].user

NoHabitAnalytics ==
    [total_habits |-> 0, average_streak |-> <<0, 1>>,
     average_completion_rate |-> <<0, 1>>, best_streak |-> 0,
     categories |-> <<>>, struggling_habits |-> <<>>, strong_habits |-> <<>>]

\* C20: get_user_analytics never divides by zero: it returns, with zeros
\* and empty lists for a user without active habit, and for every active
\* habit the denominator min(30, days_since_habit_start + 1) is at least 1.
C20_AnalyticsNeverDividesByZero ==
    [][\A r \in Slots :
          LET q == req[r]
          IN (q.pc = "analytics" /\ req'[r] # q)
             => /\ req'[r].pc = "provider"
                /\ ActiveHabits(q.user) = {} => req'[r].analytics = NoHabitAnalytics
                /\ \A h \in ActiveHabits(q.user) : RateDenominator(h) >= 1]_vars

\* the analytics of a user whose only habit was created at this instant
C20_Witness ==
    \E r \in Slots :
        /\ req[r].pc = "provider"
        /\ req[r].analytics.total_habits = 1
        /\ \A h \in ActiveHabits(req[r].user) : h.start_date = now

\* the calls of the address that were let through in the trailing window
AcceptedInWindow(ip_address) ==
    {a \in attempts : /\ a.ip = ip_address
                      /\ a.at > clock - WindowMinutes * SecondsPerMinute}

AttemptsWithinLimits ==
    \A a \in Addresses :
        /\ Cardinality(AcceptedInWindow(a)) <= MaxAttempts
        /\ Cardinality({x \in AcceptedInWindow(a) :
                            x.endpoint = "create_first_admin"}) <= FirstAdminAttempts

\* C19: per address, the calls let through within the trailing 15 minutes
\* never exceed 5 in all and 3 for create-first-admin; a call over the limit
\* of its endpoint is answered 429 before anything else happens, and a call
\* neither reads nor changes what is recorded for another address.
C19_AdminRateLimit ==
    [][/\ AttemptsWithinLimits'
       /\ \A r \in Slots :
             (started' = started + 1 /\ req'[r] # req[r])
                => LET q == req'[r]
                       limit == IF q.kind = "create_first_admin"
                                THEN FirstAdminAttempts ELSE MaxAttempts
                       refused == q.pc = "done" /\ q.status = 429
                   IN /\ refused <=> Cardinality(AcceptedInWindow(q.ip)) >= limit
                      /\ refused => UNCHANGED <<users, emails, invites, attempts>>
                      /\ \A a \in Addresses \ {q.ip} :
                            admin_rate_limit'[a] = admin_rate_limit[a]]_vars

\* the sixth call of an address within the window has been answered 429
\* while the other address has calls of its own in the window
C19_Witness ==
    \E r \in Slots :
        /\ req[r].pc = "done" /\ req[r].status = 429
        /\ req[r].kind = "accept_invite"
        /\ Cardinality(AcceptedInWindow(req[r].ip)) = MaxAttempts
        /\ \E a \in Addresses \ {req[r].ip} : AcceptedInWindow(a) # {}

AdminOnly == {"get_users", "create_user", "get_admin_analytics"}
SuperOnly == {"invite_admin", "list_admin_invites", "revoke_admin_invite"}

\* the caller's role does not meet the route's requirement
RoleUnmet(q) ==
    \/ q.kind \in AdminOnly /\ users[q.user].role \notin AdminRoles
    \/ q.kind \in SuperOnly /\ users[q.user].role # "super_admin"

\* C21: a call to an admin-only route (list users, create user, platform
\* analytics) by a caller of role "user", and a call to a super-admin-only
\* route (invite admin, list invites, revoke invite) by a caller who is not
\* super_admin, ends at once in a 403 and changes no table and no limiter
\* entry; a super_admin is never refused by the admin check.
C21_RoleRequired ==
    [][\A r \in Slots :
          (req'[r] # req[r] /\ req'[r].kind \in AdminOnly \cup SuperOnly) =>
             LET q == req'[r]
             IN /\ RoleUnmet(q) =>
                      /\ q.pc = "done"
                      /\ q.status = 403
                      /\ UNCHANGED <<users, emails, invites, admin_rate_limit,
                                     habits, checkins, badges, recs>>
                /\ (q.kind \in AdminOnly /\ users[q.user].role = "super_admin") =>
                      ~(q.pc = "done" /\ q.status = 403)]_vars

\* an admin's invitation was refused after a super admin's call went through
C21_Witness ==
    \E r \in Slots :
       /\ req[r].pc = "done"
       /\ req[r].kind = "invite_admin"
       /\ users[req[r].user].role = "admin"
       /\ req[r].status = 403
       /\ \E i \in invites : i.email = "next@example.com"


\* C22: every stored check-in has no mood rating or one in 1..5 (a check-in
\* request with a rating outside 1..5 is refused and stores nothing).
C22_MoodRatingInRange ==
    \A c \in checkins : c.mood_rating \subseteq 1..5


\* the route of the request that takes a step in slot r
ActingKind(r) == IF Free(r) THEN req'[r].kind ELSE req[r].kind

HasAdmin == \E id \in DOMAIN users : users[id].role \in AdminRoles

\* C23: create-first-admin adds a user only when the secret is right and no
\* admin or super_admin exists, and the user it adds is a super_admin; when
\* one or several admins exist the call adds no user and ends in the 400
\* "Invalid secret or admin already exists" (or in the limiter's 429), never
\* in an internal error.
C23_FirstAdminOnlyWhenNone ==
    [][\A r \in Slots :
          (req'[r] # req[r] /\ ActingKind(r) = "create_first_admin") =>
             /\ users' # users =>
                   /\ req[r].secret_ok
                   /\ ~HasAdmin
                   /\ users' = Append(users, [NewUser EXCEPT !.role = "super_admin"])
             /\ (HasAdmin /\ req'[r].pc = "done") =>
                   /\ req'[r].status \in {400, 429}
                   /\ users' = users]_vars


\* the consecutive calendar days, ending on `day`, with a check-in on the habit
DayStreakOn(habit_id, day) ==
    LET runs == {n \in 0..Cardinality(HabitCheckIns(habit_id)) :
                    \A k \in 0..(n - 1) : CheckInsOn(habit_id, day - k) # {}}
    IN CHOOSE n \in runs : \A m \in runs : m <= n

\* the user's maximum streak ending on `day` over the active habits
MaxDayStreakOn(user_id, day) ==
    LET streaks == {DayStreakOn(h.id, day) : h \in ActiveHabits(user_id)} \cup {0}
    IN CHOOSE n \in streaks : \A m \in streaks : m <= n

\* the user's maximum current streak
MaxDayStreak(user_id) == MaxDayStreakOn(user_id, Date(now))

StreakTiers == {[badge |-> MONTH_MASTER, threshold |-> MonthStreak],
                [badge |-> WEEK_WARRIOR, threshold |-> WeekStreak],
                [badge |-> STREAK_STARTER, threshold |-> StarterStreak]}

\* the highest tier the streak meets among those not held, if there is one
HighestOpenTier(streak, held) ==
    LET open == {t \in StreakTiers : streak >= t.threshold /\ t.badge \notin held}
    IN IF open = {} THEN <<>>
       ELSE <<(CHOOSE t \in open : \A u \in open : u.threshold <= t.threshold).badge>>

IsStreakBadge(b) == \E t \in StreakTiers : t.badge = b

TopTier(streak) ==
    LET met == {t \in StreakTiers : streak >= t.threshold}
    IN (CHOOSE t \in met : \A u \in met : u.threshold <= t.threshold).badge

\* C25: a successful check-in request computes the streak, awards the points
\* and evaluates the badges in this order, and the evaluation sees the new
\* check-in: when the check-in brings the user's maximum current streak to
\* n >= 3, the user holds the highest streak badge with threshold <= n when
\* the request ends.
C25_BadgeSeesNewCheckIn ==
    [][\A r \in Slots :
          (req[r].pc = "eval_commit" /\ req[r].kind = "check_in"
           /\ req'[r].pc = "done") =>
             LET q == req[r]
                 n == MaxDayStreakOn(q.user, Date(q.check_in_date))
             IN n >= StarterStreak =>
                   \E b \in badges' : /\ b.user_id = q.user
                                       /\ b.badge_type = TopTier(n)]_vars


\* C26: a generate_recommendation invocation runs analytics, prompt, provider
\* call, fallback if the call failed, persist, in this order: the provider is
\* called once whatever the outcome (no second call after a failure), nothing
\* is persisted before the call has returned or failed, and exactly one
\* recommendation is persisted, by the step after the call.
C26_OneCallThenOnePersist ==
    [][/\ \A r \in Slots :
             LET q == req[r]
             IN /\ (q.pc = "analytics" /\ req'[r].pc # q.pc) =>
                      (req'[r].pc = "provider" /\ recs' = recs)
                /\ (q.pc = "provider"
                    /\ (req'[r].pc # q.pc \/ req'[r].provider # q.provider)) =>
                      (req'[r].pc = "persist" /\ recs' = recs)
                /\ (q.pc = "persist" /\ req'[r].pc # q.pc) =>
                      /\ req'[r].pc = "done"
                      /\ recs \subseteq recs'
                      /\ Cardinality(recs' \ recs) = 1
                      /\ \A rec \in recs' \ recs : rec.user_id = q.user
       /\ recs' # recs => \E r \in Slots : req[r].pc = "persist" /\ req'[r].pc = "done"
      ]_vars

\* the call failed, and two invocations have each persisted one recommendation
C26_Witness ==
    /\ Cardinality(recs) = 2
    /\ \A r \in Slots : req[r].pc = "done" /\ req[r].status = 200
    /\ \E rec \in recs : rec.source_ai = "system"


\* the points_earned of all check-ins of all habits of the user, added up
EarnedPoints(user_id) ==
    LET cis == SetToSeq({c \in checkins :
                   \E h \in UserHabits(user_id) : h.id = c.habit_id})
    IN SumSeq([i \in 1..Len(cis) |-> cis[i].points_earned])

\* C27: when no two requests of one user overlap, each user's total_points
\* is the sum of points_earned over the check-ins of the user's habits; a
\* refused check-in (already checked in, habit not found) adds to neither.
C27_PointsAreSumOfCheckIns ==
    \A u \in UserIds : users[u].total_points = EarnedPoints(u)

\* a second check-in of the day was refused after the first was recorded,
\* or both users have checked in today
C27_Witness ==
    /\ \E c \in checkins : c.habit_id = 1 /\ Date(c.check_in_date) = Date(now)
    /\ \/ \E r \in Slots : req[r].pc = "done" /\ req[r].status = 400
       \/ \E c \in checkins : c.habit_id = 2
    /\ users[1].total_points > 0
    /\ Quiescent


\* the invitations a token opens: existing, unused, unexpired
Usable(token) ==
    {i \in invites : i.invite_token = token /\ ~i.is_used /\ i.expires_at > now}

\* C28: an invitation token is single-use and time-limited.  An accept-invite
\* call whose token belongs, when it is verified, to no invitation, to a used
\* one or to one that has expired (48 hours after its issue) or was revoked
\* fails with 400 and creates no user; a user is created only by an
\* accept-invite call that found its invitation usable, with role "admin" and
\* the invited email; no invited email ever has two accounts.
C28_InviteSingleUseTimeLimited ==
    [][/\ \A r \in Slots :
             LET q == req[r]
             IN (q.kind = "accept_invite" /\ q.pc = "verify_invite"
                 /\ req'[r].pc # q.pc) =>
                    IF Usable(q.invite_token) = {}
                    THEN /\ req'[r].pc = "done"
                         /\ req'[r].status = 400
                         /\ users' = users
                    ELSE \E i \in Usable(q.invite_token) :
                            /\ req'[r].email = i.email
                            /\ req'[r].invite_id = i.id
       /\ users' # users =>
             \E r \in Slots :
                /\ req[r].kind = "accept_invite"
                /\ req[r].pc = "insert_admin"
                /\ users' = Append(users, [NewUser EXCEPT !.role = "admin"])
                /\ emails' = Append(emails, req[r].email)
       /\ \A i \in invites' :
             (\A j \in invites : j.id # i.id) =>
                (~i.is_used /\ i.expires_at = now + timedelta(2))
       /\ \A i \in invites :
             Cardinality({id \in DOMAIN emails : emails[id] = i.email}) <= 1
      ]_vars

\* the invitation was accepted, and a later call with its token has failed
C28_Witness ==
    /\ \E id \in DOMAIN users :
          emails[id] = "new@example.com" /\ users[id].role = "admin"
    /\ \E i \in invites : i.invite_token = "token" /\ i.is_used
    /\ \E r \in Slots : /\ req[r].pc = "done"
                         /\ req[r].kind = "accept_invite"
                         /\ req[r].status = 400


\* C29: account creation never escalates a role: a user row with role
\* "super_admin" is only ever added by create-first-admin (so never on behalf
\* of a caller of role "admin"), signup adds only role "user" and accept-invite
\* only role "admin".
C29_NoRoleEscalation ==
    [][\A id \in DOMAIN users' \ DOMAIN users :
          \E r \in Slots :
             /\ req[r].pc \in {"insert_user", "insert_admin"}
             /\ req'[r].pc = "done"
             /\ users'[id].role = "super_admin" => req[r].kind = "create_first_admin"
             /\ req[r].kind = "signup" => users'[id].role = "user"
             /\ req[r].kind = "accept_invite" => users'[id].role = "admin"]_vars


EmailsDistinct(column) ==
    \A i, j \in DOMAIN column : i # j => column[i] # column[j]

\* C30: no two users ever share an email, however signup, create-user,
\* accept-invite and create-first-admin requests interleave: a request whose
\* email is registered when it checks or when it inserts is refused with an
\* error status and adds no user, so of two overlapping requests for one new
\* email at most one adds a user.
C30_EmailsUnique ==
    [][/\ EmailsDistinct(emails) /\ EmailsDistinct(emails')
       /\ Len(emails') = Len(users')
       /\ \A r \in Slots :
             LET q == req[r]
             IN (/\ q.pc \in {"email_registered", "email_exists",
                              "insert_user", "insert_admin"}
                 /\ req'[r].pc # q.pc
                 /\ \E id \in DOMAIN emails : emails[id] = q.email) =>
                    /\ req'[r].pc = "done"
                    /\ req'[r].status >= 400
                    /\ users' = users
                    /\ emails' = emails
       /\ Len(users') <= Len(users) + 1
      ]_vars

\* two requests for the new address overlapped: one added the user, the
\* other's INSERT failed
C30_Witness ==
    /\ \E id \in DOMAIN emails : emails[id] = "new@example.com"
    /\ \E r \in Slots : /\ req[r].pc = "done"
                         /\ req[r].kind \in {"signup", "create_user"}
                         /\ req[r].email = "new@example.com"
                         /\ req[r].status = 500

====
